---- MODULE Spec2Model ----
(***************************************************************************)
(* Type-checked partial references (crate partial_ref).                    *)
(*                                                                         *)
(* A partial reference is one address plus a type-level list of parts,     *)
(* each held Mut (exclusive) or Const (shared).  The list is modelled as   *)
(* a sequence of entries, head = outermost type constructor, Ref = <<>>.   *)
(* The trait machinery (PluckConst, PluckMut, HasSubset, SplitIntoParts,   *)
(* ContainsNestedPart) is modelled by the set of derivations the trait     *)
(* solver can find: every impl is one way to build a derivation, the       *)
(* Index type names the derivation.  A bound with no derivation is         *)
(* rejected; with several, the Index cannot be inferred and has to be      *)
(* written out for the call to be accepted.                                *)
(***************************************************************************)
EXTENDS Naturals, Sequences, FiniteSets

VARIABLES handles, target, mem

vars == <<handles, target, mem>>

(***************************************************************************)
(* Bounds of the exploration.                                              *)
(***************************************************************************)
MaxHandles == 3
MaxReq == 2

(***************************************************************************)
(* Parts.  A declared part is a 1-tuple <<name>>; Nested<Outer, Inner> is  *)
(* the 3-tuple <<"Nested", Outer, Inner>>.                                 *)
(***************************************************************************)
PartA == <<"PartA">>
PartB == <<"PartB">>
PartC == <<"PartC">>
PartD == <<"PartD">>
PartFoo == <<"PartFoo">>
PartBar == <<"PartBar">>
Neighbors == <<"Neighbors">>
Colors == <<"Colors">>
Weights == <<"Weights">>

Nested(Outer, Inner) == <<"Nested", Outer, Inner>>

IsNested(p) == Len(p) = 3

OuterOf(p) == p[2]

InnerOf(p) == p[3]

DeclaredParts ==
    {PartA, PartB, PartC, PartD, PartFoo, PartBar, Neighbors, Colors, Weights}

(* part!(Name) declares an AbstractPart, part!(Name: Ty) a Field<Ty>.      *)
AbstractPart == "AbstractPart"

DeclaredPartType(p) ==
    CASE p = PartA -> "u32"
      [] p = PartB -> "u32"
      [] p = PartC -> AbstractPart
      [] p = PartD -> AbstractPart
      [] p = PartFoo -> "Foo"
      [] p = PartBar -> "Bar"
      [] p = Neighbors -> "VecVecUsize"
      [] p = Colors -> "VecUsize"
      [] p = Weights -> "VecF32"

(***************************************************************************)
(* The structs deriving PartialRefTarget: the struct-level (abstract)      *)
(* parts and the parts of the fields, both in declaration order.           *)
(***************************************************************************)
Targets == {"Foo", "Bar", "Baz", "Graph"}

AbstractParts(t) ==
    CASE t = "Foo" -> <<PartC, PartD>>
      [] t = "Bar" -> <<>>
      [] t = "Baz" -> <<>>
      [] t = "Graph" -> <<>>

TypedParts(t) ==
    CASE t = "Foo" -> <<PartA, PartB>>
      [] t = "Bar" -> <<PartFoo, PartA>>
      [] t = "Baz" -> <<PartBar, PartA>>
      [] t = "Graph" -> <<Neighbors, Colors, Weights>>

Range(s) == {s[i] : i \in 1..Len(s)}

RECURSIVE PartTypeOfOuter(_)
(* A Part impl for Nested with PartType = Outer::PartType.                 *)
PartTypeOfOuter(p) ==
    IF IsNested(p) THEN PartTypeOfOuter(OuterOf(p)) ELSE DeclaredPartType(p)

RECURSIVE IsPart(_), PartType(_), HasPart(_, _)

(* impl Part for Nested<Outer, Inner>: Outer is a Field of a target type   *)
(* that has the Inner part.                                                *)
IsPart(p) ==
    IF IsNested(p)
    THEN /\ IsPart(OuterOf(p))
         /\ IsPart(InnerOf(p))
         /\ PartType(OuterOf(p)) \in Targets
         /\ HasPart(PartType(OuterOf(p)), InnerOf(p))
    ELSE p \in DeclaredParts

(* type PartType = Inner::PartType                                         *)
PartType(p) ==
    IF IsNested(p) THEN PartType(InnerOf(p)) ELSE DeclaredPartType(p)

(* The derived HasPart impls, and the blanket impl for Nested parts.       *)
HasPart(t, p) ==
    IF IsNested(p)
    THEN /\ HasPart(t, OuterOf(p))
         /\ IsPart(p)
    ELSE p \in Range(AbstractParts(t)) \cup Range(TypedParts(t))

IsField(p) == PartType(p) # AbstractPart

(***************************************************************************)
(* Addresses.  A pointer is the path of struct members that leads from the *)
(* referenced target to a place inside it; the pointer to the target       *)
(* itself is the empty path.                                               *)
(***************************************************************************)
TargetPtr == <<>>

(* The struct member behind a field part: #[part(Part)] member: Ty.        *)
Member(t, p) ==
    CASE t = "Foo" /\ p = PartA -> "a"
      [] t = "Foo" /\ p = PartB -> "b"
      [] t = "Bar" /\ p = PartFoo -> "foo"
      [] t = "Bar" /\ p = PartA -> "a"
      [] t = "Baz" /\ p = PartBar -> "bar"
      [] t = "Baz" /\ p = PartA -> "a"
      [] t = "Graph" /\ p = Neighbors -> "neighbors"
      [] t = "Graph" /\ p = Colors -> "colors"
      [] t = "Graph" /\ p = Weights -> "weights"

(* What a call of unreachable!() leaves in place of an address.            *)
Unreachable == <<"unreachable!">>

RECURSIVE part_ptr_mut_flat(_, _, _)
(* A resolution that skips the outer part: the inner part is resolved on   *)
(* the address of the record itself.                                       *)
part_ptr_mut_flat(t, ptr, p) ==
    IF IsNested(p) THEN part_ptr_mut_flat(PartType(OuterOf(p)), ptr, InnerOf(p))
    ELSE IF p \in Range(AbstractParts(t)) THEN Unreachable
    ELSE Append(ptr, Member(t, p))

RECURSIVE part_ptr(_, _, _), part_ptr_mut(_, _, _)

(* HasPart::part_ptr: unreachable!() for an abstract part, addr_of! of the *)
(* member for a field part, and for Nested<Outer, Inner> the Inner part    *)
(* resolved by Outer's field type on the address of the Outer part.        *)
part_ptr(t, ptr, p) ==
    IF IsNested(p)
    THEN LET outer == part_ptr(t, ptr, OuterOf(p))
         IN  IF outer = Unreachable THEN Unreachable
             ELSE part_ptr(PartType(OuterOf(p)), outer, InnerOf(p))
    ELSE IF p \in Range(AbstractParts(t)) THEN Unreachable
    ELSE Append(ptr, Member(t, p))

(* HasPart::part_ptr_mut, the same with addr_of_mut!.                      *)
part_ptr_mut(t, ptr, p) ==
    IF IsNested(p)
    THEN LET outer == part_ptr_mut(t, ptr, OuterOf(p))
         IN  IF outer = Unreachable THEN Unreachable
             ELSE part_ptr_mut(PartType(OuterOf(p)), outer, InnerOf(p))
    ELSE IF p \in Range(AbstractParts(t)) THEN Unreachable
    ELSE Append(ptr, Member(t, p))

(* PartialRef::get_part / get_part_mut: the reference to the place the     *)
(* target's part_ptr / part_ptr_mut gives for the handle's pointer.        *)
get_part(t, ptr, p) == part_ptr(t, ptr, p)

get_part_mut(t, ptr, p) == part_ptr_mut(t, ptr, p)

(***************************************************************************)
(* Partial reference types.                                                *)
(***************************************************************************)
Ref == <<>>

(* One layer of a partial reference type: Mut<part, _> or Const<part, _>.  *)
Entry(mode, part) == [mode |-> mode, part |-> part]

Mut(p, Reference) == <<[mode |-> "Mut", part |-> p]>> \o Reference

Const(p, Reference) == <<[mode |-> "Const", part |-> p]>> \o Reference

(* lhs | rhs: both BitOr impls, the one part! writes for a declared part   *)
(* and the one for Nested, give Nested<lhs, rhs>.                          *)
BitOr(lhs, rhs) == Nested(lhs, rhs)

RECURSIVE PipeRight(_)
(* The expression read as A | (B | (... | Z)).                             *)
PipeRight(parts) ==
    IF Len(parts) = 1 THEN parts[1]
    ELSE BitOr(Head(parts), PipeRight(Tail(parts)))

RECURSIVE Pipe(_)
(* The expression A | B | ... | Z, the parts given as <<A, B, ..., Z>>:    *)
(* `|` associates to the left, (..(A | B) | ..) | Z.                       *)
Pipe(parts) ==
    IF Len(parts) = 1 THEN parts[1]
    ELSE BitOr(Pipe(SubSeq(parts, 1, Len(parts) - 1)), parts[Len(parts)])

RECURSIVE nested_part(_)
(* nested_part!(A | B | ... | Z), the parts given as <<A, B, ..., Z>>: one  *)
(* part is itself, two are Nested<A, B>, and with more the Nested of the   *)
(* first two takes the place of the first.                                 *)
nested_part(parts) ==
    IF Len(parts) = 1 THEN parts[1]
    ELSE IF Len(parts) = 2 THEN Nested(parts[1], parts[2])
    ELSE nested_part(<<Nested(parts[1], parts[2])>> \o SubSeq(parts, 3, Len(parts)))

(* One parameter of partial! after the target: `mut A | B` or `A | B`.     *)
MutArg(parts) == [mut |-> TRUE, parts |-> parts]

ConstArg(parts) == [mut |-> FALSE, parts |-> parts]

RECURSIVE partial_extend(_, _)
(* partial!(@extend $target, ...): the first remaining parameter wraps the *)
(* type built so far, and the rest extend the result.                      *)
partial_extend(acc, args) ==
    IF args = <<>> THEN acc
    ELSE partial_extend(IF Head(args).mut
                        THEN Mut(nested_part(Head(args).parts), acc)
                        ELSE Const(nested_part(Head(args).parts), acc),
                        Tail(args))

(* partial!(Ty, args...)                                                   *)
partial(args) == partial_extend(Ref, args)

RECURSIVE WrapAllAppending(_, _, _, _)
(* The loops with each part put at the inner end of the type built so far. *)
WrapAllAppending(parts, wrap, cp, acc) ==
    IF parts = <<>> THEN acc
    ELSE LET p == IF cp = <<>> THEN Head(parts) ELSE Nested(cp, Head(parts))
         IN  WrapAllAppending(Tail(parts), wrap, cp,
                              acc \o (IF wrap = "Mut" THEN Mut(p, Ref) ELSE Const(p, Ref)))

RECURSIVE WrapAll(_, _, _, _)
(* The derive's loops: each part wraps the type built so far, so the last  *)
(* declared part ends up outermost.  wrap is "Mut" or "Const", cp is the   *)
(* containing part of SplitIntoParts (<<>> for the plain reference).       *)
WrapAll(parts, wrap, cp, acc) ==
    IF parts = <<>> THEN acc
    ELSE LET p == IF cp = <<>> THEN Head(parts) ELSE Nested(cp, Head(parts))
         IN  WrapAll(Tail(parts), wrap, cp,
                     IF wrap = "Mut" THEN Mut(p, acc) ELSE Const(p, acc))

(* IntoPartialRef for &T (const_type) and &mut T (mut_type).               *)
IntoPartialRef(t, wrap) ==
    WrapAll(TypedParts(t), wrap, <<>>, WrapAll(AbstractParts(t), wrap, <<>>, Ref))

(* SplitIntoParts whose ResultMut puts the parts of the containing part     *)
(* behind the rest of the reference.                                       *)
ResultMutBehind(t, ContainingPart, Reference) ==
    Reference \o WrapAll(TypedParts(t), "Mut", ContainingPart,
                         WrapAll(AbstractParts(t), "Mut", ContainingPart, Ref))

(* SplitIntoParts<ContainingPart, Reference>::ResultMut for target t.      *)
ResultMut(t, ContainingPart, Reference) ==
    WrapAll(TypedParts(t), "Mut", ContainingPart,
            WrapAll(AbstractParts(t), "Mut", ContainingPart, Reference))

(***************************************************************************)
(* Index types.                                                            *)
(***************************************************************************)
IndexHere == <<"IndexHere">>

IndexNext(Index) == <<"IndexNext", Index>>

IndexSplit(NestedPartIndex, Index) == <<"IndexSplit", NestedPartIndex, Index>>

RECURSIVE ContainsNestedPart(_, _)
(* The set of Index types for which                                        *)
(* ContainingPart: ContainsNestedPart<NestedPart, Index> has an impl.      *)
ContainsNestedPart(ContainingPart, NestedPart) ==
    (IF ContainingPart = NestedPart /\ IsPart(NestedPart)
     THEN {IndexHere} ELSE {})
    \cup
    (IF IsNested(NestedPart)
     THEN {IndexNext(i) :
              i \in {j \in ContainsNestedPart(ContainingPart, OuterOf(NestedPart)) :
                         IsPart(NestedPart)}}
     ELSE {})

(***************************************************************************)
(* The parts requests are drawn from: every part the target has, declared  *)
(* or nested the way the `|` operator and nested_part! nest (the nested    *)
(* part is always the outer part).                                         *)
(***************************************************************************)
Parts(t) == Range(AbstractParts(t)) \cup Range(TypedParts(t))

RECURSIVE LeftNested(_, _)

LeftNested(prefix, t) ==
    UNION {{Nested(prefix, i)} \cup
           (IF PartType(i) \in Targets
            THEN LeftNested(Nested(prefix, i), PartType(i)) ELSE {}) :
               i \in Parts(t)}

AllParts(t) ==
    Parts(t) \cup
    UNION {LeftNested(o, PartType(o)) : o \in {q \in Parts(t) : PartType(q) \in Targets}}

AllPartsOf == [t \in Targets |-> AllParts(t)]

Entries(t) == [mode : {"Mut", "Const"}, part : AllPartsOf[t]]

RECURSIVE SeqsUpTo(_, _)

SeqsUpTo(S, n) ==
    IF n = 0 THEN {<<>>}
    ELSE LET shorter == SeqsUpTo(S, n - 1)
         IN  shorter \cup {<<e>> \o s : e \in S, s \in {x \in shorter : Len(x) = n - 1}}

Requests == [t \in Targets |-> SeqsUpTo(Entries(t), MaxReq)]

(* The where-clauses shared by the three IndexSplit impls, apart from the  *)
(* recursive Pluck bound on ResultMut.                                     *)
SplitApplies(t, ContainingPart, PluckedPart) ==
    /\ IsNested(PluckedPart)
    /\ PartType(ContainingPart) \in Targets
    /\ ContainsNestedPart(ContainingPart, OuterOf(PluckedPart)) # {}
    /\ IsPart(PluckedPart)
    /\ IsPart(ContainingPart)
    /\ HasPart(t, ContainingPart)

RECURSIVE PluckConst(_, _, _), PluckMut(_, _, _)

(***************************************************************************)
(* The impls of PluckConst and PluckMut.  Each operator gives the          *)
(* derivations of  Reference: Pluck..<PluckedPart, Index>  over target t   *)
(* that end in one impl: one record per Index, with the impl's Remainder.  *)
(***************************************************************************)

(* PluckConst whose IndexHere impls leave the list as it is: a Mut entry   *)
(* stays Mut.                                                              *)
PluckConstHereKeepsMode(t, Reference, PluckedPart) ==
    IF Reference # Ref /\ Head(Reference).part = PluckedPart /\ HasPart(t, PluckedPart)
    THEN {[idx |-> IndexHere, rem |-> Reference]}
    ELSE {}

(* PluckConst whose IndexHere impl also matches a head nested directly in  *)
(* the plucked part, and puts the plucked part in its place.               *)
PluckConstHereMerges(t, Reference, PluckedPart) ==
    IF /\ Reference # Ref
       /\ \/ Head(Reference).part = PluckedPart
          \/ IsNested(Head(Reference).part) /\ OuterOf(Head(Reference).part) = PluckedPart
       /\ HasPart(t, PluckedPart)
    THEN {[idx |-> IndexHere, rem |-> Const(PluckedPart, Tail(Reference))]}
    ELSE {}

(* impl PluckConst<PluckedPart, IndexHere> for Const<PluckedPart, R> and   *)
(* for Mut<PluckedPart, R>: Remainder = Const<PluckedPart, R>.             *)
PluckConstHere(t, Reference, PluckedPart) ==
    IF Reference # Ref /\ Head(Reference).part = PluckedPart /\ HasPart(t, PluckedPart)
    THEN {[idx |-> IndexHere, rem |-> Const(PluckedPart, Tail(Reference))]}
    ELSE {}

(* PluckConst whose IndexNext impls put the skipped entry behind the       *)
(* Remainder of the rest.                                                  *)
PluckConstNextReorders(t, Reference, PluckedPart) ==
    IF Reference = Ref THEN {}
    ELSE {[idx |-> IndexNext(d.idx), rem |-> d.rem \o <<Head(Reference)>>] :
             d \in {x \in PluckConst(t, Tail(Reference), PluckedPart) :
                        HasPart(t, PluckedPart) /\ HasPart(t, Head(Reference).part)}}

(* impl PluckConst<PluckedPart, IndexNext<Index>> for Mut<OtherPart, R>    *)
(* and for Const<OtherPart, R>: Remainder = Mut/Const<OtherPart,           *)
(* R::Remainder>.                                                          *)
PluckConstNext(t, Reference, PluckedPart) ==
    IF Reference = Ref THEN {}
    ELSE {[idx |-> IndexNext(d.idx), rem |-> <<Head(Reference)>> \o d.rem] :
             d \in {x \in PluckConst(t, Tail(Reference), PluckedPart) :
                        HasPart(t, PluckedPart) /\ HasPart(t, Head(Reference).part)}}

(* PluckConst whose IndexSplit impl for Mut<ContainingPart, R> has the     *)
(* Remainder of the impl for Const: the containing part, now Const.        *)
PluckConstSplitKeepsContaining(t, Reference, PluckedPart) ==
    IF Reference = Ref THEN {}
    ELSE
    LET head == Head(Reference)
        rest == Tail(Reference)
    IN  IF SplitApplies(t, head.part, PluckedPart)
        THEN {[idx |-> IndexSplit(n, d.idx), rem |-> Const(head.part, rest)] :
                  n \in ContainsNestedPart(head.part, OuterOf(PluckedPart)),
                  d \in PluckConst(t,
                            ResultMut(PartType(head.part), head.part, rest),
                            PluckedPart)}
        ELSE {}

(* PluckConst whose IndexSplit impl for Const<ContainingPart, R> has the   *)
(* Remainder of the impl for Mut: that of plucking from ResultMut.         *)
PluckConstSplitExpands(t, Reference, PluckedPart) ==
    IF Reference = Ref THEN {}
    ELSE
    LET head == Head(Reference)
        rest == Tail(Reference)
    IN  IF SplitApplies(t, head.part, PluckedPart)
        THEN {[idx |-> IndexSplit(n, d.idx), rem |-> d.rem] :
                  n \in ContainsNestedPart(head.part, OuterOf(PluckedPart)),
                  d \in PluckConst(t,
                            ResultMut(PartType(head.part), head.part, rest),
                            PluckedPart)}
        ELSE {}

(* impl PluckConst<PluckedPart, IndexSplit<..>> for Mut<ContainingPart, R> *)
(* (Remainder = that of plucking from ResultMut) and for                   *)
(* Const<ContainingPart, R> (Remainder = Const<ContainingPart, R>).        *)
PluckConstSplit(t, Reference, PluckedPart) ==
    IF Reference = Ref THEN {}
    ELSE
    LET head == Head(Reference)
        rest == Tail(Reference)
    IN  IF SplitApplies(t, head.part, PluckedPart)
        THEN {[idx |-> IndexSplit(n, d.idx),
               rem |-> IF head.mode = "Mut" THEN d.rem
                       ELSE Const(head.part, rest)] :
                  n \in ContainsNestedPart(head.part, OuterOf(PluckedPart)),
                  d \in PluckConst(t,
                            ResultMut(PartType(head.part), head.part, rest),
                            PluckedPart)}
        ELSE {}

PluckConst(t, Reference, PluckedPart) ==
    PluckConstHere(t, Reference, PluckedPart)
        \cup PluckConstNext(t, Reference, PluckedPart)
        \cup PluckConstSplit(t, Reference, PluckedPart)

(* PluckMut whose IndexHere impl leaves the plucked part in the Remainder. *)
PluckMutHereKeeps(t, Reference, PluckedPart) ==
    IF /\ Reference # Ref
       /\ Head(Reference).mode = "Mut"
       /\ Head(Reference).part = PluckedPart
       /\ HasPart(t, PluckedPart)
    THEN {[idx |-> IndexHere, rem |-> Reference]}
    ELSE {}


(* PluckMut whose IndexHere impl matches the head on the innermost         *)
(* identifier of the plucked part.                                         *)
PluckMutHereByIdentifier(t, Reference, PluckedPart) ==
    IF /\ Reference # Ref
       /\ Head(Reference).mode = "Mut"
       /\ \/ Head(Reference).part = PluckedPart
          \/ IsNested(PluckedPart) /\ Head(Reference).part = InnerOf(PluckedPart)
       /\ HasPart(t, PluckedPart)
    THEN {[idx |-> IndexHere, rem |-> Tail(Reference)]}
    ELSE {}

(* PluckMut whose IndexHere impl is also given for Const<PluckedPart, R>.  *)
PluckMutHereAnyMode(t, Reference, PluckedPart) ==
    IF /\ Reference # Ref
       /\ Head(Reference).part = PluckedPart
       /\ HasPart(t, PluckedPart)
    THEN {[idx |-> IndexHere, rem |-> Tail(Reference)]}
    ELSE {}

(* impl PluckMut<PluckedPart, IndexHere> for Mut<PluckedPart, R>:          *)
(* Remainder = R.  There is no such impl for Const.                        *)
PluckMutHere(t, Reference, PluckedPart) ==
    IF /\ Reference # Ref
       /\ Head(Reference).mode = "Mut"
       /\ Head(Reference).part = PluckedPart
       /\ HasPart(t, PluckedPart)
    THEN {[idx |-> IndexHere, rem |-> Tail(Reference)]}
    ELSE {}

(* PluckMut whose IndexNext impls put the skipped entry behind the         *)
(* Remainder of the rest.                                                  *)
PluckMutNextReorders(t, Reference, PluckedPart) ==
    IF Reference = Ref THEN {}
    ELSE {[idx |-> IndexNext(d.idx), rem |-> d.rem \o <<Head(Reference)>>] :
             d \in {x \in PluckMut(t, Tail(Reference), PluckedPart) :
                        HasPart(t, PluckedPart) /\ HasPart(t, Head(Reference).part)}}

(* impl PluckMut<PluckedPart, IndexNext<Index>> for Mut<OtherPart, R> and  *)
(* for Const<OtherPart, R>: Remainder = Mut/Const<OtherPart,               *)
(* R::Remainder>.                                                          *)
PluckMutNext(t, Reference, PluckedPart) ==
    IF Reference = Ref THEN {}
    ELSE {[idx |-> IndexNext(d.idx), rem |-> <<Head(Reference)>> \o d.rem] :
             d \in {x \in PluckMut(t, Tail(Reference), PluckedPart) :
                        HasPart(t, PluckedPart) /\ HasPart(t, Head(Reference).part)}}

(* PluckMut whose IndexSplit impl leaves the containing part in the        *)
(* Remainder, as the impl of PluckConst for Const does.                    *)
PluckMutSplitKeepsContaining(t, Reference, PluckedPart) ==
    IF Reference = Ref THEN {}
    ELSE
    LET head == Head(Reference)
        rest == Tail(Reference)
    IN  IF head.mode = "Mut" /\ SplitApplies(t, head.part, PluckedPart)
        THEN {[idx |-> IndexSplit(n, d.idx), rem |-> Reference] :
                  n \in ContainsNestedPart(head.part, OuterOf(PluckedPart)),
                  d \in PluckMut(t,
                            ResultMut(PartType(head.part), head.part, rest),
                            PluckedPart)}
        ELSE {}

(* impl PluckMut<PluckedPart, IndexSplit<..>> for Mut<ContainingPart, R>:  *)
(* the containing part is split into its parts (ResultMut) and the part is *)
(* plucked from those.  There is no such impl for Const.                   *)
PluckMutSplit(t, Reference, PluckedPart) ==
    IF Reference = Ref THEN {}
    ELSE
    LET head == Head(Reference)
        rest == Tail(Reference)
    IN  IF head.mode = "Mut" /\ SplitApplies(t, head.part, PluckedPart)
        THEN {[idx |-> IndexSplit(n, d.idx), rem |-> d.rem] :
                  n \in ContainsNestedPart(head.part, OuterOf(PluckedPart)),
                  d \in PluckMut(t,
                            ResultMut(PartType(head.part), head.part, rest),
                            PluckedPart)}
        ELSE {}

PluckMut(t, Reference, PluckedPart) ==
    PluckMutHere(t, Reference, PluckedPart)
        \cup PluckMutNext(t, Reference, PluckedPart)
        \cup PluckMutSplit(t, Reference, PluckedPart)

(* Pluck by the mode of the requested entry.                               *)
Pluck(t, Reference, entry) ==
    IF entry.mode = "Mut" THEN PluckMut(t, Reference, entry.part)
    ELSE PluckConst(t, Reference, entry.part)

(* impl PartialRef for Ref / Mut<Part, R> / Const<Part, R>: every part of  *)
(* the list is a part of the target.                                       *)
IsPartialRef(t, Reference) ==
    \A i \in 1..Len(Reference) :
        IsPart(Reference[i].part) /\ HasPart(t, Reference[i].part)

(***************************************************************************)
(* Subset indices.                                                         *)
(***************************************************************************)
SubsetIndexEnd == <<"SubsetIndexEnd">>

SubsetIndexCons(PartIndex, TailIndex) == <<"SubsetIndexCons", PartIndex, TailIndex>>

RECURSIVE HasSubset(_, _, _)
(***************************************************************************)
(* The derivations of  Self: HasSubset<BorrowedRef, SubsetIndex>: the      *)
(* entries of BorrowedRef are plucked in sequence, outermost first; one    *)
(* record per SubsetIndex, with HasSubset::Remainder.                      *)
(***************************************************************************)
HasSubset(t, Self, BorrowedRef) ==
    IF BorrowedRef = Ref THEN {[idx |-> SubsetIndexEnd, rem |-> Self]}
    ELSE UNION {{[idx |-> SubsetIndexCons(d.idx, s.idx), rem |-> s.rem] :
                    s \in HasSubset(t, d.rem, Tail(BorrowedRef))} :
                   d \in Pluck(t, Self, Head(BorrowedRef))}

(* The bounds of borrow and split_borrow: BorrowedRef is a PartialRef of   *)
(* the same target and Self has it as a subset.  The result is the set of  *)
(* Remainders the call can have (none: the call is rejected).              *)
BorrowCheck(t, Self, BorrowedRef) ==
    IF IsPartialRef(t, BorrowedRef)
    THEN {d.rem : d \in HasSubset(t, Self, BorrowedRef)}
    ELSE {}

(* The part accessors without the bound PartType = Field<FieldType>.       *)
PartCheckAnyPart(t, Self, entry) ==
    IF IsPart(entry.part) /\ HasPart(t, entry.part)
    THEN {d.rem : d \in Pluck(t, Self, entry)}
    ELSE {}

(* The bounds of part, part_mut, split_part and split_part_mut: a Field    *)
(* part of the target that can be plucked in the given mode.               *)
PartCheck(t, Self, entry) ==
    IF IsPart(entry.part) /\ IsField(entry.part) /\ HasPart(t, entry.part)
    THEN {d.rem : d \in Pluck(t, Self, entry)}
    ELSE {}

RECURSIVE Subsets(_, _, _)
(***************************************************************************)
(* The HasSubset impls read as a relation: every BorrowedRef of at most n  *)
(* entries that Self has as a subset, with each Remainder it can leave.    *)
(***************************************************************************)
Subsets(t, Self, n) ==
    {[ref |-> Ref, rem |-> Self]} \cup
    (IF n = 0 THEN {}
     ELSE UNION {UNION {{[ref |-> <<e>> \o s.ref, rem |-> s.rem] :
                            s \in Subsets(t, d.rem, n - 1)} :
                           d \in Pluck(t, Self, e)} :
                    e \in Entries(t)})

(***************************************************************************)
(* State.  handles[h] is a live partial reference, or a plain reference    *)
(* to one field (role "part" from split_part[_mut], "field" from           *)
(* part[_mut]): its pointer, its list, the handle it was derived from      *)
(* (parent, 0 for the initial one) and how.  The deriving methods take     *)
(* `&'a mut self`, so a handle with a live derived handle is mutably       *)
(* borrowed and cannot be used; part takes `&'a self` and leaves the       *)
(* handle usable for other calls of part.  A call the compiler rejects is  *)
(* a program that does not exist: the action of a rejected request is not  *)
(* enabled.  mem is the referenced record, the value of each member by its *)
(* path.                                                                   *)
(* Live handles occupy the ids 1..n in the order they were created.        *)
(***************************************************************************)
Ids == 1..MaxHandles

NoHandle ==
    [alive |-> FALSE, ptr |-> TargetPtr, list |-> Ref, parent |-> 0, role |-> "none"]

(* PartialRef::from_raw(ptr) as a handle of the given type, or the plain   *)
(* reference a part accessor returns (list = its one entry).               *)
Handle(ptr, list, parent, role) ==
    [alive |-> TRUE, ptr |-> ptr, list |-> list, parent |-> parent, role |-> role]

(* PartialRef::get_raw                                                     *)
get_raw(h) == handles[h].ptr

(* A plain reference to a field, as opposed to a partial reference.        *)
IsReference(h) == handles[h].role \in {"part", "field"}

(* The reference get_part / get_part_mut gives for the entry's mode.       *)
GetPart(t, ptr, entry) ==
    IF entry.mode = "Mut" THEN get_part_mut(t, ptr, entry.part)
    ELSE get_part(t, ptr, entry.part)

Alive(h) == handles[h].alive

Borrowed(h) == \E c \in Ids : handles[c].alive /\ handles[c].parent = h

Usable(h) == Alive(h) /\ ~Borrowed(h)

Free == {h \in Ids : ~handles[h].alive}

Min(S) == CHOOSE x \in S : \A y \in S : x <= y

(* A usize taken as a number of quarters.                                  *)
AsF32Quarters(n) == n

(* A usize as f32.  Weights are counted in quarters, which is exact for   *)
(* every value the example computes.                                       *)
AsF32(n) == 4 * n

(* The records the tests and the tutorial build: the value of every        *)
(* scalar or vector member, by the path of the member.                     *)
InitialMem(t) ==
    CASE t = "Foo" ->
             [q \in {<<"a">>, <<"b">>} |-> IF q = <<"a">> THEN 1 ELSE 2]
      [] t = "Bar" ->
             [q \in {<<"foo", "a">>, <<"foo", "b">>, <<"a">>} |->
                 CASE q = <<"foo", "a">> -> 1
                   [] q = <<"foo", "b">> -> 2
                   [] q = <<"a">> -> 3]
      [] t = "Baz" ->
             [q \in {<<"bar", "foo", "a">>, <<"bar", "foo", "b">>,
                     <<"bar", "a">>, <<"a">>} |->
                 CASE q = <<"bar", "foo", "a">> -> 1
                   [] q = <<"bar", "foo", "b">> -> 2
                   [] q = <<"bar", "a">> -> 3
                   [] q = <<"a">> -> 7]
      [] t = "Graph" ->
             [q \in {<<"neighbors">>, <<"colors">>, <<"weights">>} |->
                 CASE q = <<"neighbors">> -> <<<<1, 2>>, <<0, 2>>, <<0, 1>>>>
                   [] q = <<"colors">> -> <<0, 1, 0>>
                   [] q = <<"weights">> -> <<1, 2, 3>>]

(* into_partial_ref / into_partial_ref_mut on a plain reference.           *)
Init ==
    /\ target \in Targets
    /\ mem = InitialMem(target)
    /\ \E wrap \in {"Mut", "Const"} :
           handles = [h \in Ids |->
                         IF h = 1 THEN Handle(TargetPtr, IntoPartialRef(target, wrap), 0, "root")
                         ELSE NoHandle]

(* PartialRef::borrow::<BorrowedRef, _>()                                  *)
Borrow(h, BorrowedRef) ==
    /\ Usable(h)
    /\ ~IsReference(h)
    /\ Free # {}
    /\ BorrowCheck(target, handles[h].list, BorrowedRef) # {}
    /\ handles' = [handles EXCEPT ![Min(Free)] = Handle(get_raw(h), BorrowedRef, h, "borrowed")]
    /\ UNCHANGED <<target, mem>>

(* PartialRef::split_borrow::<BorrowedRef, _>(), returning                 *)
(* (BorrowedRef, Self::Remainder).                                         *)
SplitBorrow(h, BorrowedRef, Remainder) ==
    /\ Usable(h)
    /\ ~IsReference(h)
    /\ Cardinality(Free) >= 2
    /\ Remainder \in BorrowCheck(target, handles[h].list, BorrowedRef)
    /\ LET b == Min(Free)
           m == Min(Free \ {b})
       IN  handles' = [handles EXCEPT
                          ![b] = Handle(get_raw(h), BorrowedRef, h, "borrowed"),
                          ![m] = Handle(get_raw(h), Remainder, h, "remainder")]
    /\ UNCHANGED <<target, mem>>

(* A split_part that hands the second result every part of the source.    *)
SplitPartKeepsAll(h, entry, Remainder) ==
    /\ Usable(h)
    /\ ~IsReference(h)
    /\ Cardinality(Free) >= 2
    /\ Remainder \in PartCheck(target, handles[h].list, entry)
    /\ LET b == Min(Free)
           m == Min(Free \ {b})
       IN  handles' = [handles EXCEPT
                          ![b] = Handle(GetPart(target, get_raw(h), entry), <<entry>>, h, "part"),
                          ![m] = Handle(get_raw(h), handles[h].list, h, "remainder")]
    /\ UNCHANGED <<target, mem>>

(* PartialRef::split_part (entry.mode "Const") and split_part_mut ("Mut"), *)
(* returning (&FieldType or &mut FieldType, Self::Remainder).              *)
SplitPart(h, entry, Remainder) ==
    /\ Usable(h)
    /\ ~IsReference(h)
    /\ Cardinality(Free) >= 2
    /\ Remainder \in PartCheck(target, handles[h].list, entry)
    /\ LET b == Min(Free)
           m == Min(Free \ {b})
       IN  handles' = [handles EXCEPT
                          ![b] = Handle(GetPart(target, get_raw(h), entry), <<entry>>, h, "part"),
                          ![m] = Handle(get_raw(h), Remainder, h, "remainder")]
    /\ UNCHANGED <<target, mem>>

(* The handles a call taking &self can be made on: alive, and lent out at  *)
(* most as shared references to fields.                                    *)
SharedUsable(h) ==
    /\ Alive(h)
    /\ \A c \in Ids :
           handles[c].alive /\ handles[c].parent = h
               => handles[c].role = "field" /\ handles[c].list[1].mode = "Const"

(* PartialRef::part (entry.mode "Const", on &self) and part_mut ("Mut", on *)
(* &mut self), returning &FieldType or &mut FieldType.                     *)
Part(h, entry) ==
    /\ IF entry.mode = "Mut" THEN Usable(h) ELSE SharedUsable(h)
    /\ ~IsReference(h)
    /\ Free # {}
    /\ PartCheck(target, handles[h].list, entry) # {}
    /\ handles' = [handles EXCEPT ![Min(Free)] =
                       Handle(GetPart(target, get_raw(h), entry), <<entry>>, h, "field")]
    /\ UNCHANGED <<target, mem>>

(* Copy for Const without the bound Reference: Copy.                       *)
IsCopyOuter(Reference) == Reference = Ref \/ Reference[1].mode = "Const"

(* impl Copy for Ref, impl Copy for Const<_, Reference: Copy>; no impl     *)
(* for Mut.                                                                *)
IsCopy(Reference) == \A i \in 1..Len(Reference) : Reference[i].mode = "Const"

(* Clone::clone / a copy of the handle: same type, same lifetime.          *)
Clone(h) ==
    /\ Usable(h)
    /\ ~IsReference(h)
    /\ IsCopy(handles[h].list)
    /\ Free # {}
    /\ handles' = [handles EXCEPT ![Min(Free)] =
                       Handle(get_raw(h), handles[h].list, handles[h].parent, "copy")]
    /\ UNCHANGED <<target, mem>>

(* The handles without h, the later ones renumbered to close the gap.      *)
Compact(h) ==
    [i \in Ids |->
        IF i < h THEN handles[i]
        ELSE IF i = MaxHandles THEN NoHandle
        ELSE LET old == handles[i + 1]
             IN  [old EXCEPT !.parent = IF @ > h THEN @ - 1 ELSE @]]

(* A scope that ends while handles derived from the handle are alive.      *)
DropWhileLent(h) ==
    /\ Alive(h)
    /\ handles' = Compact(h)
    /\ UNCHANGED <<target, mem>>

(* The end of a handle's scope; a handle outlives the handles derived from *)
(* it.                                                                     *)
Drop(h) ==
    /\ Usable(h)
    /\ handles' = Compact(h)
    /\ UNCHANGED <<target, mem>>

Next ==
    \/ \E h \in {x \in Ids : Usable(x) /\ Free # {}} :
           \E s \in Subsets(target, handles[h].list, MaxReq) : Borrow(h, s.ref)
    \/ \E h \in {x \in Ids : Usable(x) /\ Cardinality(Free) >= 2} :
           \E s \in Subsets(target, handles[h].list, MaxReq) :
               SplitBorrow(h, s.ref, s.rem)
    \/ \E h \in {x \in Ids : Usable(x) /\ Cardinality(Free) >= 2} :
           \E e \in Entries(target) :
               \E d \in Pluck(target, handles[h].list, e) : SplitPart(h, e, d.rem)
    \/ \E h \in {x \in Ids : Alive(x) /\ Free # {}} :
           \E e \in Entries(target) : Part(h, e)
    \/ \E h \in Ids : Clone(h)
    \/ \E h \in Ids : Drop(h)

Spec == Init /\ [][Next]_vars

(***************************************************************************)
(* The same calls as a function body usually writes them,                  *)
(* `let r = r.borrow()` or `let (_, r) = r.split_borrow()`: the result     *)
(* shadows the handle the call is made on.  The shadowed handle stays      *)
(* mutably borrowed for as long as the result lives, so it is never usable *)
(* again and is left out of the state: handle 1 is the one visible handle, *)
(* and its type goes through every list a sequence of calls can give.      *)
(***************************************************************************)

(* let r = r.borrow::<BorrowedRef, _>();                                   *)
ShadowBorrow(BorrowedRef) ==
    /\ Usable(1)
    /\ BorrowCheck(target, handles[1].list, BorrowedRef) # {}
    /\ handles' = [handles EXCEPT ![1] = Handle(get_raw(1), BorrowedRef, 0, "borrowed")]
    /\ UNCHANGED <<target, mem>>

(* let (_, r) = r.split_borrow::<BorrowedRef, _>();                        *)
ShadowRemainder(BorrowedRef, Remainder) ==
    /\ Usable(1)
    /\ Remainder \in BorrowCheck(target, handles[1].list, BorrowedRef)
    /\ handles' = [handles EXCEPT ![1] = Handle(get_raw(1), Remainder, 0, "remainder")]
    /\ UNCHANGED <<target, mem>>

NextShadow ==
    \/ \E s \in Subsets(target, handles[1].list, MaxReq) : ShadowBorrow(s.ref)
    \/ \E s \in Subsets(target, handles[1].list, MaxReq) : ShadowRemainder(s.ref, s.rem)

SpecShadow == Init /\ [][NextShadow]_vars

(***************************************************************************)
(* Accesses.  The record is reached only through handles; a call that      *)
(* passes `h.borrow()` to a function runs the function to its end, the     *)
(* handles the function derives live and die inside the call.              *)
(***************************************************************************)
MaxWeight == 10

Ten == 10

(* The records the tests and the tutorial write to.                        *)
AccessTargets == {"Foo", "Bar", "Graph"}

(* f.into_partial_ref_mut() on one of them.                                *)
InitAccess ==
    /\ target \in AccessTargets
    /\ mem = InitialMem(target)
    /\ handles = [h \in Ids |->
                     IF h = 1 THEN Handle(TargetPtr, IntoPartialRef(target, "Mut"), 0, "root")
                     ELSE NoHandle]

(* *h.part_mut(P) = 10;                                                    *)
WritePart(h, P) ==
    /\ Usable(h)
    /\ ~IsReference(h)
    /\ PartType(P) = "u32"
    /\ PartCheck(target, handles[h].list, Entry("Mut", P)) # {}
    /\ mem' = [mem EXCEPT ![get_part_mut(target, get_raw(h), P)] = Ten]
    /\ UNCHANGED <<target, handles>>

(* *r = 10; through a mutable reference part_mut or split_part_mut gave.   *)
WriteRef(r) ==
    /\ Usable(r)
    /\ IsReference(r)
    /\ handles[r].list[1].mode = "Mut"
    /\ PartType(handles[r].list[1].part) = "u32"
    /\ mem' = [mem EXCEPT ![get_raw(r)] = Ten]
    /\ UNCHANGED <<target, handles>>

(* swap_a_and_b(h.borrow()):                                               *)
(*     split_borrow!(a, b = &(mut PartA) foo);                             *)
(*     std::mem::swap(a.part_mut(PartA), b.part_mut(PartB))                *)
swap_a_and_b(h) ==
    LET Foo == partial(<<MutArg(<<PartA>>), MutArg(<<PartB>>)>>)
        foo == Handle(get_raw(h), Foo, h, "borrowed")
        A == partial(<<MutArg(<<PartA>>)>>)
    IN  /\ Usable(h)
        /\ ~IsReference(h)
        /\ HasPart(target, PartA) /\ HasPart(target, PartB)
        /\ BorrowCheck(target, handles[h].list, Foo) # {}
        /\ \E B \in BorrowCheck(target, foo.list, A) :
               LET a == Handle(foo.ptr, A, h, "borrowed")
                   b == Handle(foo.ptr, B, h, "remainder")
               IN  /\ PartCheck(target, a.list, Entry("Mut", PartA)) # {}
                   /\ PartCheck(target, b.list, Entry("Mut", PartB)) # {}
                   /\ LET pa == get_part_mut(target, a.ptr, PartA)
                          pb == get_part_mut(target, b.ptr, PartB)
                      IN  mem' = [mem EXCEPT ![pa] = mem[pb], ![pb] = mem[pa]]
        /\ UNCHANGED <<target, handles>>

(* swap_a_and_b_alt(h.borrow()):                                           *)
(*     let (a, mut foo) = foo.split_part_mut(PartA);                       *)
(*     let (b, _) = foo.split_part_mut(PartB);                             *)
(*     std::mem::swap(a, b);                                               *)
swap_a_and_b_alt(h) ==
    LET Foo == partial(<<MutArg(<<PartA>>), MutArg(<<PartB>>)>>)
        foo == Handle(get_raw(h), Foo, h, "borrowed")
    IN  /\ Usable(h)
        /\ ~IsReference(h)
        /\ HasPart(target, PartA) /\ HasPart(target, PartB)
        /\ BorrowCheck(target, handles[h].list, Foo) # {}
        /\ \E Rest \in PartCheck(target, foo.list, Entry("Mut", PartA)) :
               LET a == get_part_mut(target, foo.ptr, PartA)
                   foo2 == Handle(foo.ptr, Rest, h, "remainder")
               IN  /\ PartCheck(target, foo2.list, Entry("Mut", PartB)) # {}
                   /\ LET b == get_part_mut(target, foo2.ptr, PartB)
                      IN  mem' = [mem EXCEPT ![a] = mem[b], ![b] = mem[a]]
        /\ UNCHANGED <<target, handles>>

(* add_color_to_weight(h.borrow(), index):                                 *)
(*     g.part_mut(Weights)[index] += g.part(Colors)[index] as f32;         *)
(* Vectors are indexed from 0, sequences from 1.                           *)
add_color_to_weight(h, index) ==
    LET Graph == partial(<<MutArg(<<Weights>>), ConstArg(<<Colors>>)>>)
        g == Handle(get_raw(h), Graph, h, "borrowed")
    IN  /\ Usable(h)
        /\ ~IsReference(h)
        /\ target = "Graph"
        /\ BorrowCheck(target, handles[h].list, Graph) # {}
        /\ PartCheck(target, g.list, Entry("Mut", Weights)) # {}
        /\ PartCheck(target, g.list, Entry("Const", Colors)) # {}
        /\ LET weights == get_part_mut(target, g.ptr, Weights)
               colors == get_part(target, g.ptr, Colors)
           IN  /\ index + 1 \in DOMAIN mem[weights]
               /\ index + 1 \in DOMAIN mem[colors]
               /\ mem[weights][index + 1] + AsF32(mem[colors][index + 1]) <= MaxWeight
               /\ mem' = [mem EXCEPT ![weights][index + 1] =
                                          @ + AsF32(mem[colors][index + 1])]
        /\ UNCHANGED <<target, handles>>

NextAccess ==
    \/ \E h \in {x \in Ids : Usable(x) /\ Free # {}} :
           \E s \in Subsets(target, handles[h].list, MaxReq) : Borrow(h, s.ref)
    \/ \E h \in {x \in Ids : Usable(x) /\ Cardinality(Free) >= 2} :
           \E s \in Subsets(target, handles[h].list, MaxReq) :
               SplitBorrow(h, s.ref, s.rem)
    \/ \E h \in {x \in Ids : Usable(x) /\ Cardinality(Free) >= 2} :
           \E e \in Entries(target) :
               \E d \in Pluck(target, handles[h].list, e) : SplitPart(h, e, d.rem)
    \/ \E h \in {x \in Ids : Alive(x) /\ Free # {}} :
           \E e \in Entries(target) : Part(h, e)
    \/ \E h \in Ids : Drop(h)
    \/ \E h \in Ids : \E P \in AllPartsOf[target] : WritePart(h, P)
    \/ \E r \in Ids : WriteRef(r)
    \/ \E h \in Ids : swap_a_and_b(h)
    \/ \E h \in Ids : swap_a_and_b_alt(h)
    \/ \E h \in Ids : \E index \in 0..2 : add_color_to_weight(h, index)

SpecAccess == InitAccess /\ [][NextAccess]_vars

(***************************************************************************)
(* Vocabulary of the properties.                                           *)
(***************************************************************************)
PartsOf(list) == {list[i].part : i \in 1..Len(list)}

MutPartsOf(list) == {list[i].part : i \in {j \in 1..Len(list) : list[j].mode = "Mut"}}

ConstPartsOf(list) == {list[i].part : i \in {j \in 1..Len(list) : list[j].mode = "Const"}}

RECURSIVE IsPrefix(_, _)
(* q is p, or p is nested (to the left) inside q.                          *)
IsPrefix(q, p) == q = p \/ (IsNested(p) /\ IsPrefix(q, OuterOf(p)))

UsableIds == {h \in Ids : Usable(h)}

(* The two results of a split that are both alive: the narrowed handle (or *)
(* field reference) b and the remainder m, with the list they came from.   *)
SplitPairs ==
    {pr \in Ids \X Ids :
        /\ handles[pr[1]].alive /\ handles[pr[2]].alive
        /\ handles[pr[1]].role \in {"borrowed", "part"}
        /\ handles[pr[2]].role = "remainder"
        /\ handles[pr[1]].parent = handles[pr[2]].parent}

SourceOf(h) == handles[handles[h].parent].list

(* The handles a narrowing or splitting call can be made on.               *)
Narrowable == {h \in UsableIds : ~IsReference(h)}

(* The parts overlap: one is the other or is nested inside it.             *)
Overlap(p, q) == IsPrefix(p, q) \/ IsPrefix(q, p)

(* The positions of list whose entry is P or a part P is nested in.        *)
Covering(list, P) == {j \in 1..Len(list) : IsPrefix(list[j].part, P)}

AllMut(list) == \A i \in 1..Len(list) : list[i].mode = "Mut"

Distinct(list) == Cardinality(PartsOf(list)) = Len(list)

RECURSIVE IsSubseq(_, _)
(* a can be obtained from b by deleting entries.                           *)
IsSubseq(a, b) ==
    IF a = <<>> THEN TRUE
    ELSE IF b = <<>> THEN FALSE
    ELSE IF Head(a) = Head(b) THEN IsSubseq(Tail(a), Tail(b))
    ELSE IsSubseq(a, Tail(b))

(* The entries of H that no entry of R names, directly or as the part a    *)
(* named part is nested in.                                                *)
Untouched(H, R) ==
    SelectSeq(H, LAMBDA e : \A i \in 1..Len(R) : ~IsPrefix(e.part, R[i].part))

(* The requests that list the entries of R in another order (or the same). *)
Permutations(R) ==
    {[i \in 1..Len(R) |-> R[f[i]]] :
        f \in {g \in [1..Len(R) -> 1..Len(R)] :
                  \A a, b \in 1..Len(R) : a # b => g[a] # g[b]}}

ExclusiveTaken(H, P, rem) ==
    /\ Covering(H, P) # {}
    /\ \A j \in Covering(H, P) : H[j].mode = "Mut"
    /\ \A k \in 1..Len(rem) : ~Overlap(rem[k].part, P)

(* C2: a request for P as Mut is accepted only if the held entry for P is  *)
(* Mut, and then P is in the narrowed handle and nowhere in the Remainder: *)
(* for every request a usable handle accepts.                              *)
C2_ExclusiveRequest ==
    \A h \in Narrowable :
        \A s \in Subsets(target, handles[h].list, MaxReq) :
            \A P \in MutPartsOf(s.ref) :
                ExclusiveTaken(handles[h].list, P, s.rem)

(* A handle that holds parts in both modes accepts a request for a nested  *)
(* part as Mut, with a Remainder that is not empty.                        *)
C2_Witness ==
    \E h \in Narrowable :
        /\ MutPartsOf(handles[h].list) # {}
        /\ ConstPartsOf(handles[h].list) # {}
        /\ \E s \in Subsets(target, handles[h].list, MaxReq) :
               /\ \E P \in MutPartsOf(s.ref) : IsNested(P)
               /\ s.rem # Ref

(* What a Remainder rem says about a part A that was asked for as Const:   *)
(* rem holds A (or a part A is nested in), only as Const, and a request    *)
(* for A as Mut made on rem is rejected.                                   *)
SharedLeft(A, rem) ==
    /\ Covering(rem, A) # {}
    /\ \A k \in Covering(rem, A) : rem[k].mode = "Const"
    /\ PluckMut(target, rem, A) = {}

(* C3: a request for A as Const is accepted whether A is held as Mut or as *)
(* Const, the Remainder holds A as Const, and a request for A as Mut on    *)
(* that Remainder is rejected: for every part a usable handle holds or     *)
(* covers, and for the two handles of every split.                         *)
C3_SharedRequest ==
    /\ \A h \in Narrowable :
           \A A \in {P \in AllPartsOf[target] : Covering(handles[h].list, P) # {}} :
               /\ PluckConst(target, handles[h].list, A) # {}
               /\ \A d \in PluckConst(target, handles[h].list, A) :
                      /\ SharedLeft(A, d.rem)
                      /\ A \in PartsOf(handles[h].list) => A \in ConstPartsOf(d.rem)
    /\ \A pr \in SplitPairs :
           \A A \in ConstPartsOf(handles[pr[1]].list) :
               SharedLeft(A, handles[pr[2]].list)

(* A split that asked as Const for a part held as Mut: the usable          *)
(* Remainder holds it as Const.                                            *)
C3_Witness ==
    \E pr \in SplitPairs :
        \E A \in ConstPartsOf(handles[pr[1]].list) :
            /\ A \in MutPartsOf(SourceOf(pr[1]))
            /\ A \in ConstPartsOf(handles[pr[2]].list)
            /\ Usable(pr[2])

(* C4: the entries of the held list that the request does not name (nor    *)
(* names a part nested in them) are in the Remainder with the same part    *)
(* and mode and in the same order: for every request a usable handle       *)
(* accepts.                                                                *)
C4_Frame ==
    \A h \in Narrowable :
        \A s \in Subsets(target, handles[h].list, MaxReq) :
            IsSubseq(Untouched(handles[h].list, s.ref), s.rem)

(* A handle that holds parts in both modes accepts a request that leaves   *)
(* its first entry and another one alone and changes a third.              *)
C4_Witness ==
    \E h \in Narrowable :
        /\ MutPartsOf(handles[h].list) # {}
        /\ ConstPartsOf(handles[h].list) # {}
        /\ \E s \in Subsets(target, handles[h].list, MaxReq) :
               LET U == Untouched(handles[h].list, s.ref)
               IN  /\ Len(U) >= 2
                   /\ Head(U) = Head(handles[h].list)
                   /\ Len(s.rem) > Len(U)

(* Some entry of R asks for a part H does not hold (nor a part it is       *)
(* nested in), or asks as Mut for a part H holds as Const.                 *)
Fails(H, R) ==
    \E i \in 1..Len(R) :
        \/ Covering(H, R[i].part) = {}
        \/ /\ R[i].mode = "Mut"
           /\ \E j \in Covering(H, R[i].part) : H[j].mode = "Const"

(* C5: a request with a part that is absent from the held list, or asked   *)
(* as Mut while held as Const, is rejected: the call has no narrowed       *)
(* handle and no Remainder, whatever the other entries of the request are. *)
C5_Failure ==
    \A h \in Narrowable :
        \A R \in Requests[target] :
            Fails(handles[h].list, R) =>
                /\ HasSubset(target, handles[h].list, R) = {}
                /\ BorrowCheck(target, handles[h].list, R) = {}

(* A usable Remainder that holds a part as Const and no longer holds a     *)
(* part its source held: requests of both failing kinds can be made on it. *)
C5_Witness ==
    \E h \in Narrowable :
        /\ handles[h].role = "remainder"
        /\ ConstPartsOf(handles[h].list) # {}
        /\ \E P \in Parts(target) : Covering(handles[h].list, P) = {}
        /\ \E R \in Requests[target] :
               Len(R) = MaxReq /\ Fails(handles[h].list, R)

(* What splitting the request R off an all-Mut list H leaves in rem.       *)
ExclusiveSplit(H, R, rem) ==
    /\ AllMut(rem)
    /\ PartsOf(R) \subseteq PartsOf(H) =>
           /\ PartsOf(rem) = PartsOf(H) \ PartsOf(R)
           /\ Len(rem) = Len(H) - Len(R)

(* C6: splitting a set S of held parts off a handle that holds all its     *)
(* parts as Mut, all as Mut, leaves exactly the held parts outside S, each *)
(* once and as Mut: for every such request a usable handle accepts, and    *)
(* for the two handles of every such split.                                *)
C6_AllExclusiveSplit ==
    /\ \A h \in Narrowable :
           AllMut(handles[h].list) =>
               \A s \in Subsets(target, handles[h].list, MaxReq) :
                   AllMut(s.ref) =>
                       ExclusiveSplit(handles[h].list, s.ref, s.rem)
    /\ \A pr \in SplitPairs :
           AllMut(SourceOf(pr[1])) /\ AllMut(handles[pr[1]].list) =>
               ExclusiveSplit(SourceOf(pr[1]), handles[pr[1]].list,
                              handles[pr[2]].list)

(* A split of two held parts, as Mut, off an all-Mut handle with three     *)
(* parts or more: the Remainder is not empty.                              *)
C6_Witness ==
    \E pr \in SplitPairs :
        /\ AllMut(SourceOf(pr[1]))
        /\ Len(SourceOf(pr[1])) >= 3
        /\ AllMut(handles[pr[1]].list)
        /\ Len(handles[pr[1]].list) = 2
        /\ PartsOf(handles[pr[1]].list) \subseteq PartsOf(SourceOf(pr[1]))
        /\ Len(handles[pr[2]].list) = Len(SourceOf(pr[1])) - 2

(* The request R is a k-subset of the N distinct parts of H.               *)
IsKSubset(H, R) ==
    Distinct(H) /\ Distinct(R) /\ PartsOf(R) \subseteq PartsOf(H)

(* The mode of the entry of list for part P.                               *)
ModeOf(list, P) == (CHOOSE e \in Range(list) : e.part = P).mode

(* The modes of rem differ from those of H only by Mut becoming Const for  *)
(* a part R asks for as Const.                                             *)
OnlyDowngraded(H, R, rem) ==
    \A P \in PartsOf(rem) \cap PartsOf(H) :
        ModeOf(rem, P) =
            IF P \in ConstPartsOf(R) THEN "Const" ELSE ModeOf(H, P)

(* C7 as stated: narrowing a k-subset out of N distinct parts leaves a     *)
(* Remainder of exactly N entries that covers every original part.         *)
C7_SameLength ==
    \A h \in Narrowable :
        \A s \in Subsets(target, handles[h].list, MaxReq) :
            IsKSubset(handles[h].list, s.ref) =>
                /\ Len(s.rem) = Len(handles[h].list)
                /\ PartsOf(handles[h].list) \subseteq PartsOf(s.rem)
                /\ OnlyDowngraded(handles[h].list, s.ref, s.rem)

(* What narrowing the k-subset R out of H leaves in rem.                   *)
Coverage(H, R, rem) ==
    /\ Len(rem) = Len(H) - Cardinality(MutPartsOf(R))
    /\ PartsOf(rem) = PartsOf(H) \ MutPartsOf(R)
    /\ OnlyDowngraded(H, R, rem)

(* C7: narrowing a k-subset out of N distinct parts leaves a Remainder     *)
(* with one entry for every original part that was not asked for as Mut,   *)
(* N minus the number of parts asked for as Mut, with modes changed only   *)
(* by Mut becoming Const for the parts asked for as Const.                 *)
C7_RemainderCoverage ==
    \A h \in Narrowable :
        \A s \in Subsets(target, handles[h].list, MaxReq) :
            IsKSubset(handles[h].list, s.ref) =>
                Coverage(handles[h].list, s.ref, s.rem)

(* A Remainder with three distinct parts or more accepts a 2-subset, one   *)
(* part as Mut and one as Const.                                           *)
C7_Witness ==
    \E h \in Narrowable :
        /\ handles[h].role = "remainder"
        /\ Len(handles[h].list) >= 3
        /\ \E s \in Subsets(target, handles[h].list, MaxReq) :
               /\ IsKSubset(handles[h].list, s.ref)
               /\ Cardinality(MutPartsOf(s.ref)) = 1
               /\ Cardinality(ConstPartsOf(s.ref)) = 1
               /\ Len(s.rem) = Len(handles[h].list) - 1

(* C8 as stated: requests that are permutations of each other are both     *)
(* accepted or both rejected, and accepted with the same Remainder.        *)
C8_OrderIndependent ==
    \A h \in Narrowable :
        \A s \in Subsets(target, handles[h].list, MaxReq) :
            \A R2 \in Permutations(s.ref) :
                BorrowCheck(target, handles[h].list, R2) =
                    BorrowCheck(target, handles[h].list, s.ref)

(* No part of R is nested in another part of R.                            *)
NoneNested(R) ==
    \A i, j \in 1..Len(R) :
        R[i].part # R[j].part => ~IsPrefix(R[i].part, R[j].part)

(* C8: requests that are permutations of each other and name no part       *)
(* together with a part nested in it are both accepted or both rejected,   *)
(* and accepted with the same Remainder: for every request a usable handle *)
(* accepts and every permutation of it.                                    *)
C8_OrderIndependentUnnested ==
    \A h \in Narrowable :
        \A s \in Subsets(target, handles[h].list, MaxReq) :
            NoneNested(s.ref) =>
                \A R2 \in Permutations(s.ref) :
                    BorrowCheck(target, handles[h].list, R2) =
                        BorrowCheck(target, handles[h].list, s.ref)

(* A Remainder accepts, in both orders, a request of two different parts   *)
(* in different modes, one of them nested, neither nested in the other.    *)
C8_Witness ==
    \E h \in Narrowable :
        \E s \in Subsets(target, handles[h].list, MaxReq) :
            /\ handles[h].role = "remainder"
            /\ Len(s.ref) = 2
            /\ s.ref[1].part # s.ref[2].part
            /\ s.ref[1].mode # s.ref[2].mode
            /\ NoneNested(s.ref)
            /\ \E i \in 1..2 : IsNested(s.ref[i].part)
            /\ s.rem \in BorrowCheck(target, handles[h].list,
                                     <<s.ref[2], s.ref[1]>>)

(* F is a field part whose field type is a record that has the part P.     *)
RecordHasPart(F, P) ==
    /\ IsPart(F)
    /\ PartType(F) \in Targets
    /\ IsPart(P)
    /\ HasPart(PartType(F), P)

(* C9 as stated: F-then-P as Mut is accepted iff the list holds F, or a    *)
(* part F is nested in, as Mut and the record type of F has the part P.    *)
C9_NestedIff ==
    \A h \in Narrowable :
        \A F \in AllPartsOf[target], P \in DeclaredParts :
            PluckMut(target, handles[h].list, Nested(F, P)) # {}
                <=> /\ \E j \in Covering(handles[h].list, F) :
                           handles[h].list[j].mode = "Mut"
                    /\ RecordHasPart(F, P)

(* C9: for a declared part P, F-then-P as Mut is accepted iff the list     *)
(* holds as Mut F-then-P itself, or F, or a part F is nested in, and the   *)
(* record type of F has the part P.  When P is itself a nested part of     *)
(* that record type, F-then-P is rejected.                                 *)
C9_NestedIffHeld ==
    \A h \in Narrowable :
        \A F \in AllPartsOf[target] :
            /\ \A P \in DeclaredParts :
                   PluckMut(target, handles[h].list, Nested(F, P)) # {}
                       <=> /\ \E j \in Covering(handles[h].list, Nested(F, P)) :
                                  handles[h].list[j].mode = "Mut"
                           /\ RecordHasPart(F, P)
            /\ PartType(F) \in Targets =>
                   \A P \in {Q \in AllPartsOf[PartType(F)] : IsNested(Q)} :
                       PluckMut(target, handles[h].list, Nested(F, P)) = {}

(* A usable Remainder that holds a nested part F-then-P as Mut and does    *)
(* not hold F: a split has taken another part of F.                        *)
C9_Witness ==
    \E h \in Narrowable :
        /\ handles[h].role = "remainder"
        /\ \E Q \in MutPartsOf(handles[h].list) :
               /\ IsNested(Q)
               /\ Covering(handles[h].list, OuterOf(Q)) = {}
               /\ PluckMut(target, handles[h].list, Q) # {}

(* C10: a request for both F-then-P and F as Mut is rejected in either     *)
(* order by every usable handle, and no handle holds as Mut both a part    *)
(* and a part nested in it.                                                *)
C10_OverlapRejected ==
    /\ \A h \in Narrowable :
           \A Q \in {X \in AllPartsOf[target] : IsNested(X)} :
               /\ BorrowCheck(target, handles[h].list,
                      <<Entry("Mut", Q), Entry("Mut", OuterOf(Q))>>) = {}
               /\ BorrowCheck(target, handles[h].list,
                      <<Entry("Mut", OuterOf(Q)), Entry("Mut", Q)>>) = {}
    /\ \A h \in Ids :
           \A i, j \in 1..Len(handles[h].list) :
               /\ i # j
               /\ handles[h].list[i].mode = "Mut"
               /\ handles[h].list[j].mode = "Mut"
               => ~IsPrefix(handles[h].list[i].part, handles[h].list[j].part)

(* A usable handle that accepts a request for F as Mut and a request for   *)
(* F-then-P as Mut, each on its own, while a handle split off it holds     *)
(* nothing of F.                                                           *)
C10_Witness ==
    \E h \in Narrowable :
        \E Q \in {X \in AllPartsOf[target] : IsNested(X)} :
            /\ PluckMut(target, handles[h].list, Q) # {}
            /\ PluckMut(target, handles[h].list, OuterOf(Q)) # {}
            /\ handles[h].role = "remainder"

(***************************************************************************)
(* C11: abstract parts can be held, narrowed to and split off, but no      *)
(* operation resolves one to an address.  No live handle or reference      *)
(* carries what unreachable!() leaves, every plain reference is to a field *)
(* part, and for every abstract part (declared, or a nested chain ending   *)
(* in one) the part accessors are rejected on every handle while a         *)
(* narrowing to it is accepted by every handle that covers it.             *)
(***************************************************************************)
OpaqueParts == {P \in AllPartsOf[target] : ~IsField(P)}

C11_OpaqueNeverResolved ==
    /\ \A h \in Ids : Alive(h) => get_raw(h) # Unreachable
    /\ \A h \in Ids :
           Alive(h) /\ IsReference(h) => IsField(handles[h].list[1].part)
    /\ \A h \in Narrowable : \A P \in OpaqueParts :
           /\ PartCheck(target, handles[h].list, Entry("Const", P)) = {}
           /\ PartCheck(target, handles[h].list, Entry("Mut", P)) = {}
           /\ Covering(handles[h].list, P) # {}
                  => BorrowCheck(target, handles[h].list, <<Entry("Const", P)>>) # {}

(* A split whose narrowed handle holds a nested chain ending in an         *)
(* abstract part, and another whose narrowed handle holds a declared one.  *)
C11_Witness ==
    \E pr \in SplitPairs :
        /\ handles[pr[1]].role = "borrowed"
        /\ \E P \in PartsOf(handles[pr[1]].list) : P \in OpaqueParts /\ IsNested(P)
        /\ \E P \in PartsOf(handles[pr[2]].list) : P \in OpaqueParts
        /\ get_raw(pr[1]) = TargetPtr

(***************************************************************************)
(* C12: the handle a conversion gives has exactly one entry per declared   *)
(* part of the record, all Mut from &mut and all Const from &, it points   *)
(* at the record, and read from its head the list is the declaration in    *)
(* reverse: the last declared field part first, the first struct-level     *)
(* part last.                                                              *)
(***************************************************************************)
Declaration(t) == AbstractParts(t) \o TypedParts(t)

Reversed(s) == [i \in 1..Len(s) |-> s[Len(s) + 1 - i]]

Uniform(parts, mode) == [i \in 1..Len(parts) |-> Entry(mode, parts[i])]

RootIds == {h \in Ids : Alive(h) /\ handles[h].role = "root"}

C12_MaximalHandle ==
    /\ \A wrap \in {"Mut", "Const"} :
           IntoPartialRef(target, wrap) = Uniform(Reversed(Declaration(target)), wrap)
    /\ \A h \in RootIds :
           /\ get_raw(h) = TargetPtr
           /\ Distinct(handles[h].list)
           /\ PartsOf(handles[h].list) = Range(Declaration(target))
           /\ \E wrap \in {"Mut", "Const"} :
                  handles[h].list = Uniform(Reversed(Declaration(target)), wrap)

(* C12 as stated: the entries are in declaration order, read from the head. *)
C12_DeclarationOrder ==
    \A h \in RootIds :
        \E wrap \in {"Mut", "Const"} :
            handles[h].list = Uniform(Declaration(target), wrap)

(* The handle converted from a &mut to a record with struct-level and      *)
(* field parts, in use: a handle narrowed from it is alive.                *)
C12_Witness ==
    \E h \in RootIds :
        /\ AbstractParts(target) # <<>>
        /\ TypedParts(target) # <<>>
        /\ AllMut(handles[h].list)
        /\ \E c \in Ids : Alive(c) /\ handles[c].parent = h

(***************************************************************************)
(* C13: on every handle and for every field part P written with the outer  *)
(* side nested (P declared, or (..(F1|F2)|..)|Fn), part(P) is accepted iff  *)
(* the list holds P or a part P is nested in, and part_mut(P) iff it holds *)
(* one of them as Mut.  A field part with a nested part on its inner side, *)
(* F|(G|..), is rejected by both even when the list holds F.  Every live   *)
(* reference a part accessor gave points at the field, and its source      *)
(* holds a covering entry in a sufficient mode.                            *)
(***************************************************************************)
FieldParts == {P \in AllPartsOf[target] : IsField(P)}

(* The field parts F|Q with Q a nested part of the record type of F.       *)
InnerNestedParts ==
    UNION {{Nested(F, Q) : Q \in {X \in AllPartsOf[PartType(F)] :
                                     IsNested(X) /\ IsField(X)}} :
              F \in {X \in AllPartsOf[target] : PartType(X) \in Targets}}

DerefIff(list, P) ==
    /\ PartCheck(target, list, Entry("Const", P)) # {}
           <=> Covering(list, P) # {}
    /\ PartCheck(target, list, Entry("Mut", P)) # {}
           <=> \E j \in Covering(list, P) : list[j].mode = "Mut"

C13_DerefHeldMode ==
    /\ \A h \in Narrowable :
           /\ \A P \in FieldParts : DerefIff(handles[h].list, P)
           /\ \A P \in InnerNestedParts :
                  /\ PartCheck(target, handles[h].list, Entry("Const", P)) = {}
                  /\ PartCheck(target, handles[h].list, Entry("Mut", P)) = {}
    /\ \A r \in {h \in Ids : Alive(h) /\ IsReference(h)} :
           LET e == handles[r].list[1]
               src == handles[handles[r].parent]
           IN  /\ e.part \in FieldParts
               /\ \E j \in Covering(src.list, e.part) :
                      e.mode = "Mut" => src.list[j].mode = "Mut"
               /\ get_raw(r) = part_ptr(target, src.ptr, e.part)

(* C13 as stated: for every field part of the record, those with a nested  *)
(* part on the inner side included.                                        *)
C13_DerefIff ==
    \A h \in Narrowable :
        \A P \in FieldParts \cup InnerNestedParts : DerefIff(handles[h].list, P)

(* A shared reference to a nested field obtained with part from a handle   *)
(* that holds the part only as Const, and on which part_mut is rejected.   *)
C13_Witness ==
    \E r \in Ids :
        /\ Alive(r) /\ handles[r].role = "field"
        /\ handles[r].list[1].mode = "Const"
        /\ IsNested(handles[r].list[1].part)
        /\ handles[handles[r].parent].role = "borrowed"
        /\ handles[handles[r].parent].list = handles[r].list
        /\ PartCheck(target, handles[r].list,
                     Entry("Mut", handles[r].list[1].part)) = {}

(***************************************************************************)
(* C14: every step that changes the record changes only places inside      *)
(* field parts that a usable handle holds as Mut; *h.part_mut(P) = 10      *)
(* changes the field of P only and the source handle then reads 10 there;  *)
(* a callee given {mut PartA, mut PartB} by borrow that swaps them (through *)
(* the handles of a split_borrow, or the references of two split_part_mut) *)
(* leaves the source reading the swapped values, 2 and 1 from Foo {a: 1,    *)
(* b: 2}; add_color_to_weight(h.borrow(), 1) on colors [0, 1, 0] and        *)
(* weights [0.25, 0.5, 0.75] leaves weights [0.25, 1.5, 0.75] (in quarters:  *)
(* [1, 6, 3]) and nothing else changed.                                    *)
(***************************************************************************)
IsPathPrefix(a, b) == Len(a) <= Len(b) /\ SubSeq(b, 1, Len(a)) = a

Changed == {q \in DOMAIN mem : mem'[q] # mem[q]}

(* The place q lies in a field part that a usable handle holds as Mut.     *)
ExclusiveAt(q) ==
    \E h \in UsableIds : \E i \in 1..Len(handles[h].list) :
        /\ handles[h].list[i].mode = "Mut"
        /\ IsField(handles[h].list[i].part)
        /\ IsPathPrefix(part_ptr(target, TargetPtr, handles[h].list[i].part), q)

(* What a read of the field part P through the handle h gives after the    *)
(* step.                                                                   *)
ReadAfter(h, P) == mem'[get_part(target, get_raw(h), P)]

ReadBefore(h, P) == mem[get_part(target, get_raw(h), P)]

WriteThrough ==
    mem' # mem =>
        /\ \A q \in Changed : ExclusiveAt(q)
        /\ \A h \in Ids : \A P \in AllPartsOf[target] :
               WritePart(h, P) =>
                   /\ Changed \subseteq {part_ptr(target, TargetPtr, P)}
                   /\ \A r \in RootIds : ReadAfter(r, P) = Ten
        /\ \A h \in Ids :
               swap_a_and_b(h) \/ swap_a_and_b_alt(h) =>
                   /\ Changed \subseteq {<<"a">>, <<"b">>}
                   /\ \A r \in RootIds :
                          /\ ReadAfter(r, PartA) = ReadBefore(r, PartB)
                          /\ ReadAfter(r, PartB) = ReadBefore(r, PartA)
                          /\ mem = InitialMem("Foo") =>
                                 ReadAfter(r, PartA) = 2 /\ ReadAfter(r, PartB) = 1
        /\ \A h \in Ids :
               add_color_to_weight(h, 1) /\ mem = InitialMem("Graph") =>
                   /\ Changed = {<<"weights">>}
                   /\ \A r \in RootIds : ReadAfter(r, Weights) = <<1, 6, 3>>

C14_WriteThrough == [][WriteThrough]_vars

(* The state of test_swap_a_and_b_alt after the call: PartC is split off   *)
(* and still held, and the record reads a = 2, b = 1.                      *)
C14_Witness ==
    /\ target = "Foo"
    /\ mem[<<"a">>] = 2 /\ mem[<<"b">>] = 1
    /\ \E pr \in SplitPairs :
           /\ handles[pr[1]].list = <<Entry("Mut", PartC)>>
           /\ Usable(pr[2])
           /\ PartCheck(target, handles[pr[2]].list, Entry("Const", PartA)) # {}

(***************************************************************************)
(* C15: the source of every live derived handle is alive.  A handle with   *)
(* a live derived handle, other than shared references to fields, is not   *)
(* used: no narrowing, split, part accessor, write or call is enabled on   *)
(* it.  A step derives handles only from a handle that is free to be used, *)
(* changes no live handle's list, and when it ends the scope of a handle   *)
(* narrowed by borrow and thereby frees the source, the source accepts the *)
(* same borrow again.                                                      *)
(***************************************************************************)
ChildrenOf(s) == {c \in Ids : Alive(c) /\ handles[c].parent = s}

SharedFieldRef(c) ==
    handles[c].role = "field" /\ handles[c].list[1].mode = "Const"

(* Some operation is enabled on the handle s.                              *)
CanUse(s) ==
    \/ \E q \in Requests[target] : q # Ref /\ ENABLED Borrow(s, q)
    \/ \E e \in Entries(target) : ENABLED Part(s, e)
    \/ \E e \in Entries(target) :
           Cardinality(Free) >= 2 /\ PartCheck(target, handles[s].list, e) # {}
               /\ Usable(s) /\ ~IsReference(s)
    \/ \E P \in AllPartsOf[target] : ENABLED WritePart(s, P)
    \/ ENABLED WriteRef(s)
    \/ ENABLED swap_a_and_b(s)
    \/ ENABLED swap_a_and_b_alt(s)
    \/ \E index \in 0..2 : ENABLED add_color_to_weight(s, index)
    \/ ENABLED Drop(s)

SourcesOutlive ==
    /\ \A c \in Ids :
           Alive(c) /\ handles[c].parent # 0 =>
               Alive(handles[c].parent) /\ handles[c].parent < c
    /\ \A s \in Ids :
           (\E c \in ChildrenOf(s) : ~SharedFieldRef(c)) => ~CanUse(s)

(* The handles whose scope the step ends.                                  *)
Dropped == {d \in Ids : Alive(d) /\ handles' = Compact(d)}

ScopedStep ==
    /\ \A c \in Free :
           handles'[c].alive =>
               LET s == handles'[c].parent
               IN  /\ s # 0 /\ Alive(s) /\ handles'[s] = handles[s]
                   /\ get_raw(s) = TargetPtr
                   /\ \A d \in ChildrenOf(s) :
                          SharedFieldRef(d) /\ handles'[c].role = "field"
                              /\ handles'[c].list[1].mode = "Const"
    /\ handles' # handles /\ Cardinality(Free') <= Cardinality(Free) =>
           \A h \in Ids : Alive(h) => handles'[h] = handles[h]
    /\ Cardinality(Free') > Cardinality(Free) =>
           /\ Dropped # {}
           /\ \A d \in Dropped :
                  LET s == handles[d].parent
                  IN  /\ ChildrenOf(d) = {}
                      /\ s # 0 => handles'[s] = handles[s]
                      /\ s # 0 /\ handles[d].role = "borrowed" /\ ChildrenOf(s) = {d} =>
                             /\ Free' # {}
                             /\ BorrowCheck(target, handles'[s].list, handles[d].list) # {}

NoExclusive(list) == MutPartsOf(list) = {}

Duplicable ==
    /\ \A h \in Narrowable :
           Free # {} => (ENABLED Clone(h) <=> NoExclusive(handles[h].list))
    /\ \A c \in Ids :
           Alive(c) /\ handles[c].role = "copy" => NoExclusive(handles[c].list)

CopyStep ==
    \A c \in Free :
        handles'[c].alive /\ handles'[c].role = "copy" =>
            \E h \in Narrowable :
                /\ NoExclusive(handles[h].list)
                /\ handles'[h] = handles[h]
                /\ handles'[c].list = handles[h].list
                /\ handles'[c].ptr = handles[h].ptr
                /\ handles'[c].parent = handles[h].parent

C16_CopyIffShared == []Duplicable /\ [][CopyStep]_vars

(* A copy of a handle with shared entries only, next to the handle it was  *)
(* copied from, their source holding Mut entries.                          *)
C16_Witness ==
    \E c \in Ids : \E h \in Ids \ {c} :
        /\ Alive(c) /\ Alive(h)
        /\ handles[c].role = "copy"
        /\ handles[c].list # Ref
        /\ handles[c].list = handles[h].list
        /\ handles[c].parent = handles[h].parent
        /\ handles[c].parent # 0
        /\ ~NoExclusive(SourceOf(c))

(***************************************************************************)
(* C17: partial!(Ty, PartA, PartB, mut PartC) is                           *)
(* Const<PartA, Const<PartB, Mut<PartC, Ref<Ty>>>>, and the type of every  *)
(* live handle is what partial! gives for its entries listed from the      *)
(* outermost to the innermost: the first listed part is the outermost      *)
(* entry, the last listed the innermost.                                   *)
(***************************************************************************)
RECURSIVE Chain(_)
(* The parts A, B, ..., Z of the part written A | B | ... | Z.             *)
Chain(p) == IF IsNested(p) THEN Chain(OuterOf(p)) \o <<InnerOf(p)>> ELSE <<p>>

(* The parameters of partial! that list the entries of a type in order.    *)
ArgsOf(list) ==
    [i \in 1..Len(list) |->
        IF list[i].mode = "Mut" THEN MutArg(Chain(list[i].part))
        ELSE ConstArg(Chain(list[i].part))]

PartialRefIds == {h \in Ids : Alive(h) /\ ~IsReference(h)}

C17_FirstListedOutermost ==
    /\ partial(<<ConstArg(<<PartA>>), ConstArg(<<PartB>>), MutArg(<<PartC>>)>>)
           = Const(PartA, Const(PartB, Mut(PartC, Ref)))
    /\ \A h \in PartialRefIds : partial(ArgsOf(handles[h].list)) = handles[h].list

(* What the macro does: every listed part wraps the type of the parts      *)
(* listed before it, so the last listed part is the outermost entry.       *)
C17_LastListedOutermost ==
    /\ partial(<<ConstArg(<<PartA>>), ConstArg(<<PartB>>), MutArg(<<PartC>>)>>)
           = Mut(PartC, Const(PartB, Const(PartA, Ref)))
    /\ \A h \in PartialRefIds :
           partial(ArgsOf(handles[h].list)) = Reversed(handles[h].list)

(* A live narrowed handle with a Const and a Mut entry, one of them a      *)
(* nested part: the order of its entries shows.                            *)
C17_Witness ==
    \E h \in PartialRefIds :
        /\ handles[h].role = "borrowed"
        /\ Len(handles[h].list) = 2
        /\ handles[h].list[1].mode # handles[h].list[2].mode
        /\ \E i \in 1..2 : IsNested(handles[h].list[i].part)
        /\ partial(ArgsOf(handles[h].list)) # handles[h].list

(***************************************************************************)
(* C18: for parts A of the record, B of A's record type and C of B's,      *)
(* A | B | C and nested_part!(A | B | C) are both Nested<Nested<A, B>, C>: *)
(* the composition nests on the outer side, the part composed last is the  *)
(* innermost.  This is a part of the record, and every handle that holds A *)
(* or a part of the chain accepts a request for it as Const.               *)
(***************************************************************************)
Chains3 ==
    {<<A, B, C>> : A \in {X \in Parts(target) : PartType(X) \in Targets},
                   B \in DeclaredParts, C \in DeclaredParts} \cap
    {c \in Seq(DeclaredParts) :
        /\ Len(c) = 3
        /\ c[2] \in Parts(PartType(c[1]))
        /\ PartType(c[2]) \in Targets
        /\ c[3] \in Parts(PartType(c[2]))}

C18_OuterNests ==
    \A c \in Chains3 :
        LET T == Nested(Nested(c[1], c[2]), c[3])
        IN  /\ Pipe(c) = T
            /\ nested_part(c) = T
            /\ IsPart(T) /\ HasPart(target, T)
            /\ \A h \in Narrowable :
                   Covering(handles[h].list, T) # {}
                       <=> PluckConst(target, handles[h].list, Pipe(c)) # {}

(* C18 as stated: A, then B, then C is A-then-(B-then-C).                   *)
C18_InnerNests ==
    \A c \in Chains3 : Pipe(c) = Nested(c[1], Nested(c[2], c[3]))

(* A narrowed handle that holds a part composed of three, as the           *)
(* expression and the macro give it.                                       *)
C18_Witness ==
    \E h \in Narrowable : \E c \in Chains3 :
        /\ handles[h].role = "borrowed"
        /\ Pipe(c) \in PartsOf(handles[h].list)
        /\ nested_part(c) \in PartsOf(handles[h].list)

(***************************************************************************)
(* C19: on every handle and for every field part P, the Remainders that    *)
(* the bounds shared by part_mut(P) and split_part_mut(P) allow are those  *)
(* split_borrow has for the request Mut<P, Ref> (none: all are rejected),  *)
(* and those of part(P) and split_part(P) are those of the request         *)
(* Const<P, Ref>.  The two results of every split_part[_mut] that are      *)
(* alive are the reference the part accessor gives on the source and a     *)
(* Remainder of that split_borrow on the source.                           *)
(***************************************************************************)
(* The references to fields and the Remainders split off with them.        *)
PartSplits == {pr \in SplitPairs : handles[pr[1]].role = "part"}

C19_SplitPartIsPartPlusSplit ==
    /\ \A h \in Narrowable : \A e \in Entries(target) :
           PartCheck(target, handles[h].list, e)
               = IF IsField(e.part)
                 THEN BorrowCheck(target, handles[h].list, <<e>>) ELSE {}
    /\ \A pr \in PartSplits :
           LET e == handles[pr[1]].list[1]
               src == handles[handles[pr[1]].parent]
           IN  /\ get_raw(pr[1]) = GetPart(target, src.ptr, e)
               /\ get_raw(pr[2]) = src.ptr
               /\ handles[pr[2]].list \in BorrowCheck(target, src.list, <<e>>)

(* Both results of a split_part_mut of a nested field part, the Remainder  *)
(* different from the source's list.                                       *)
C19_Witness ==
    \E pr \in PartSplits :
        /\ handles[pr[1]].list[1].mode = "Mut"
        /\ IsNested(handles[pr[1]].list[1].part)
        /\ handles[pr[2]].list # SourceOf(pr[2])
        /\ Usable(pr[1]) /\ Usable(pr[2])

(***************************************************************************)
(* C20: for every field part F of the record whose field is a record, and  *)
(* every field part P of that record (nested to any depth, on either       *)
(* side), the address of F-then-P is the address of P resolved on the      *)
(* address of F, and it is the member path F, ..., P from the record.      *)
(* part_ptr and part_ptr_mut give the same address for every field part,   *)
(* and every live reference to a field points at the member path of its    *)
(* part, a place of the record.                                            *)
(***************************************************************************)
RECURSIVE Flatten(_)
(* The declared parts a part is composed of, outermost first.              *)
Flatten(p) ==
    IF IsNested(p) THEN Flatten(OuterOf(p)) \o Flatten(InnerOf(p)) ELSE <<p>>

RECURSIVE MemberPath(_, _)
(* The members named by a chain of declared field parts, starting in t.    *)
MemberPath(t, chain) ==
    IF chain = <<>> THEN <<>>
    ELSE <<Member(t, Head(chain))>>
             \o MemberPath(DeclaredPartType(Head(chain)), Tail(chain))

(* Some member of the record lies at or below the address.                 *)
IsPlace(ptr) == \E q \in DOMAIN mem : IsPathPrefix(ptr, q)

C20_ResolutionComposes ==
    /\ \A Q \in FieldParts \cup InnerNestedParts :
           /\ part_ptr(target, TargetPtr, Q) = part_ptr_mut(target, TargetPtr, Q)
           /\ part_ptr(target, TargetPtr, Q) = MemberPath(target, Flatten(Q))
           /\ IsPlace(part_ptr_mut(target, TargetPtr, Q))
    /\ \A F \in {X \in FieldParts : PartType(X) \in Targets} :
           \A P \in {X \in AllPartsOf[PartType(F)] : IsField(X)} :
               LET S == PartType(F)
               IN  /\ part_ptr(target, TargetPtr, Nested(F, P))
                          = part_ptr(S, part_ptr(target, TargetPtr, F), P)
                   /\ part_ptr_mut(target, TargetPtr, Nested(F, P))
                          = part_ptr_mut(S, part_ptr_mut(target, TargetPtr, F), P)
                   /\ part_ptr(S, part_ptr(target, TargetPtr, F), P)
                          = part_ptr_mut(S, part_ptr_mut(target, TargetPtr, F), P)
    /\ \A r \in {h \in Ids : Alive(h) /\ IsReference(h)} :
           /\ get_raw(r) = MemberPath(target, Flatten(handles[r].list[1].part))
           /\ IsPlace(get_raw(r))

(* A live mutable reference to a field three records deep.                 *)
C20_Witness ==
    \E r \in Ids :
        /\ Alive(r) /\ IsReference(r)
        /\ handles[r].list[1].mode = "Mut"
        /\ Len(Flatten(handles[r].list[1].part)) = 3
        /\ Len(get_raw(r)) = 3

(***************************************************************************)
(* C21: on every handle that holds as Mut a part F whose field is a        *)
(* record, and for every part P of that record, the request Const F|P is   *)
(* accepted, and every Remainder holds F|P as Const, F|Q as Mut for every  *)
(* other part Q of the record, and F itself no longer; the Remainder       *)
(* accepts F|Q as Mut while the narrowed handle accepts F|P as Const.      *)
(***************************************************************************)
(* The parts of the list, held in the given mode, whose field is a record. *)
RecordPartsOf(list, mode) ==
    {list[i].part : i \in {j \in 1..Len(list) :
                               list[j].mode = mode /\ PartType(list[j].part) \in Targets}}

Holds(list, mode, P) == \E i \in 1..Len(list) : list[i] = Entry(mode, P)

C21_SharedNestedOfExclusive ==
    \A h \in Narrowable :
        \A F \in RecordPartsOf(handles[h].list, "Mut") :
            \A P \in Parts(PartType(F)) :
                LET Request == <<Entry("Const", Nested(F, P))>>
                    Remainders == BorrowCheck(target, handles[h].list, Request)
                IN  /\ Remainders # {}
                    /\ \A R \in Remainders :
                           /\ Holds(R, "Const", Nested(F, P))
                           /\ F \notin PartsOf(R)
                           /\ \A Q \in Parts(PartType(F)) \ {P} :
                                  /\ Holds(R, "Mut", Nested(F, Q))
                                  /\ PluckMut(target, R, Nested(F, Q)) # {}
                           /\ PluckConst(target, Request, Nested(F, P)) # {}
                           /\ PluckMut(target, Request, Nested(F, P)) = {}

(* test_nested_mut_to_const after the split_borrow: the narrowed handle    *)
(* holds Const F|P, the Remainder Mut F|Q, their source Mut F.             *)
C21_Witness ==
    \E pr \in SplitPairs :
        /\ Usable(pr[1]) /\ Usable(pr[2])
        /\ Len(handles[pr[1]].list) = 1
        /\ handles[pr[1]].role = "borrowed"
        /\ LET e == handles[pr[1]].list[1]
           IN  /\ e.mode = "Const" /\ IsNested(e.part)
               /\ Holds(SourceOf(pr[1]), "Mut", OuterOf(e.part))
               /\ Holds(handles[pr[2]].list, "Const", e.part)
               /\ \E Q \in Parts(PartType(OuterOf(e.part))) \ {InnerOf(e.part)} :
                      Holds(handles[pr[2]].list, "Mut", Nested(OuterOf(e.part), Q))

(***************************************************************************)
(* C22: on every handle that holds as Const a part F whose field is a      *)
(* record, and for every part P of that record, the request Const F|P is   *)
(* accepted and its only Remainder is the handle's own list.               *)
(***************************************************************************)
C22_SharedNestedOfShared ==
    \A h \in Narrowable :
        \A F \in RecordPartsOf(handles[h].list, "Const") :
            \A P \in Parts(PartType(F)) :
                /\ BorrowCheck(target, handles[h].list, <<Entry("Const", Nested(F, P))>>)
                       = {handles[h].list}
                /\ {d.rem : d \in PluckConst(target, handles[h].list, Nested(F, P))}
                       = {handles[h].list}

(* test_nested_const after the second split_borrow: the Remainder of a    *)
(* split is a list with Const F and a Mut entry, which is its own          *)
(* Remainder for the request Const F|P.                                    *)
C22_Witness ==
    /\ handles[1].role = "remainder"
    /\ MutPartsOf(handles[1].list) # {}
    /\ \E F \in RecordPartsOf(handles[1].list, "Const") :
           \E P \in Parts(PartType(F)) :
               handles[1].list \in BorrowCheck(target, handles[1].list,
                                               <<Entry("Const", Nested(F, P))>>)

(* How many entries of list are e.                                         *)
Count(list, e) == Cardinality({i \in 1..Len(list) : list[i] = e})

(* C23: a request for a part is accepted only by a list that holds that    *)
(* very part or a part it is nested in; the entries of other parts are in  *)
(* every Remainder, in order; and plucking a nested part F|A as Mut from a *)
(* list that also holds the top-level part A leaves every entry of A in    *)
(* the Remainder, as often and in the mode it was held.                    *)
C23_ExactIdentity ==
    \A h \in Narrowable :
        \A e \in Entries(target) :
            LET list == handles[h].list
                Ds == Pluck(target, list, e)
            IN  /\ Ds # {} => Covering(list, e.part) # {}
                /\ \A d \in Ds :
                       /\ IsSubseq(Untouched(list, <<e>>), d.rem)
                       /\ (IsNested(e.part) /\ e.mode = "Mut") =>
                              \A m \in {"Mut", "Const"} :
                                  Count(d.rem, Entry(m, InnerOf(e.part)))
                                      = Count(list, Entry(m, InnerOf(e.part)))

(* test_nested_mut after its split_borrow: the narrowed handle holds F|A   *)
(* as Mut, and the Remainder still holds the top-level A the source held,  *)
(* in the same mode.                                                       *)
C23_Witness ==
    \E pr \in SplitPairs :
        /\ Usable(pr[1]) /\ Usable(pr[2])
        /\ handles[pr[1]].role = "borrowed"
        /\ \E P \in MutPartsOf(handles[pr[1]].list) :
               /\ IsNested(P)
               /\ handles[pr[1]].list = <<Entry("Mut", P)>>
               /\ \E m \in {"Mut", "Const"} :
                      /\ Holds(SourceOf(pr[1]), m, InnerOf(P))
                      /\ Holds(handles[pr[2]].list, m, InnerOf(P))

RECURSIVE ChildToward(_, _)
(* The part directly nested in F on the nesting chain from F down to P.    *)
ChildToward(F, P) == IF OuterOf(P) = F THEN P ELSE ChildToward(F, OuterOf(P))

RECURSIVE SiblingsAlong(_, _)
(* The parts next to the chain from F down to P: at every level, the parts *)
(* of the record at that level other than the one the chain goes through.  *)
SiblingsAlong(F, P) ==
    IF F = P THEN {}
    ELSE ({Nested(F, Q) : Q \in Parts(PartType(F))} \ {ChildToward(F, P)})
             \cup SiblingsAlong(ChildToward(F, P), P)

(* The parts nested, at any depth, inside an entry a list holds as Mut.    *)
NestedBelow(t, F) == {P \in AllParts(t) : IsPrefix(F, P) /\ P # F}

(* C24: plucking as Mut a part P nested, at any depth, in a part F held as *)
(* Mut at position i is accepted, and every Remainder is the held list     *)
(* with the entry of F replaced, in place, by one Mut entry for each       *)
(* sibling along the chain from F to P and nothing else: the entries       *)
(* before and behind F are as they were, and neither F nor P is left.      *)
C24_ExpandsInPlace ==
    \A h \in Narrowable :
        LET list == handles[h].list
        IN  \A i \in {j \in 1..Len(list) : list[j].mode = "Mut"} :
                \A P \in NestedBelow(target, list[i].part) :
                    LET Sib == SiblingsAlong(list[i].part, P)
                        k == Cardinality(Sib)
                        Ds == PluckMut(target, list, P)
                    IN  /\ Ds # {}
                        /\ \A d \in Ds :
                               /\ Len(d.rem) = Len(list) - 1 + k
                               /\ SubSeq(d.rem, 1, i - 1) = SubSeq(list, 1, i - 1)
                               /\ SubSeq(d.rem, i + k, Len(d.rem))
                                      = SubSeq(list, i + 1, Len(list))
                               /\ {d.rem[j] : j \in i..(i + k - 1)}
                                      = {Entry("Mut", S) : S \in Sib}
                               /\ list[i].part \notin PartsOf(d.rem)
                               /\ P \notin PartsOf(d.rem)

(* test_deeply_nested_mut after its split_borrow: the narrowed handle      *)
(* holds a part two levels below a part F the source held as Mut behind    *)
(* another entry, which is still the first entry of the Remainder, and the *)
(* Remainder holds siblings from both levels.                              *)
C24_Witness ==
    \E pr \in SplitPairs :
        /\ Usable(pr[1]) /\ Usable(pr[2])
        /\ handles[pr[1]].role = "borrowed"
        /\ \E P \in MutPartsOf(handles[pr[1]].list) :
               /\ handles[pr[1]].list = <<Entry("Mut", P)>>
               /\ IsNested(P) /\ IsNested(OuterOf(P))
               /\ LET F == OuterOf(OuterOf(P))
                      src == SourceOf(pr[1])
                      rem == handles[pr[2]].list
                  IN  /\ Holds(src, "Mut", F)
                      /\ Head(src).part # F
                      /\ Head(rem) = Head(src)
                      /\ Len(rem) = Len(src) - 1 + Cardinality(SiblingsAlong(F, P))
                      /\ \E Q \in Parts(PartType(F)) : Holds(rem, "Mut", Nested(F, Q))
                      /\ \E Q \in Parts(PartType(OuterOf(P))) :
                             Holds(rem, "Mut", Nested(OuterOf(P), Q))

(* The declared part a nesting chain ends in.                              *)
Innermost(P) == Flatten(P)[Len(Flatten(P))]

(* C25: the PartType of a nested part, at every depth and however it is    *)
(* nested, is the declared type of the part its chain ends in: Field<T>    *)
(* when that is a field part of type T, AbstractPart when it is abstract.  *)
(* So for every part of the target and every entry a handle holds; the     *)
(* accessors resolve a part held as Mut exactly when its chain ends in a   *)
(* field part, and every reference they gave is to such a part.            *)
C25_ShapeOfInnermost ==
    /\ \A P \in AllPartsOf[target] \cup InnerNestedParts :
           /\ PartType(P) = DeclaredPartType(Innermost(P))
           /\ IsField(P) <=> \E t \in Targets : Innermost(P) \in Range(TypedParts(t))
           /\ ~IsField(P) <=> \E t \in Targets : Innermost(P) \in Range(AbstractParts(t))
    /\ \A h \in Ids : Alive(h) =>
           \A i \in 1..Len(handles[h].list) :
               PartType(handles[h].list[i].part)
                   = DeclaredPartType(Innermost(handles[h].list[i].part))
    /\ \A h \in Ids : Alive(h) /\ IsReference(h) =>
           DeclaredPartType(Innermost(handles[h].list[1].part)) # AbstractPart
    /\ \A h \in Narrowable :
           \A P \in {X \in AllPartsOf[target] : IsNested(X)} :
               (\E j \in Covering(handles[h].list, P) : handles[h].list[j].mode = "Mut")
                   => (PartCheck(target, handles[h].list, Entry("Mut", P)) # {}
                          <=> DeclaredPartType(Innermost(P)) # AbstractPart)

(* A reference an accessor gave to a field two levels down, next to a      *)
(* handle that holds an abstract part two levels down.                     *)
C25_Witness ==
    /\ \E h \in Ids :
           /\ Alive(h) /\ handles[h].role = "field"
           /\ IsNested(handles[h].list[1].part)
           /\ IsNested(OuterOf(handles[h].list[1].part))
           /\ PartType(handles[h].list[1].part) = "u32"
    /\ \E h \in Ids :
           /\ Alive(h) /\ ~IsReference(h)
           /\ \E P \in PartsOf(handles[h].list) :
                  /\ IsNested(P) /\ IsNested(OuterOf(P))
                  /\ PartType(P) = AbstractPart

(* One of the parts lies on the nesting chain of the other.                *)
OnOneChain(P, Q) ==
    IsPathPrefix(Flatten(P), Flatten(Q)) \/ IsPathPrefix(Flatten(Q), Flatten(P))

Covered(src, e) ==
    \E j \in Covering(src, e.part) : e.mode = "Mut" => src[j].mode = "Mut"

RECURSIVE AncestorsOf(_)
(* The handles h was derived from, directly or through other handles.      *)
AncestorsOf(h) ==
    IF handles[h].parent = 0 THEN {}
    ELSE {handles[h].parent} \cup AncestorsOf(handles[h].parent)

(* C27: every entry of a handle derived by borrow, split_borrow or         *)
(* split_part, narrowed side or Remainder, is covered by each handle it    *)
(* was derived from, directly or along a chain; no entry is Mut where a    *)
(* covering entry of such a handle is Const; and whatever single-entry     *)
(* request a usable handle accepts, the handle covers the request and      *)
(* every entry of the Remainder.                                           *)
C27_NoAmplification ==
    /\ \A h \in Ids : Alive(h) =>
           \A s \in AncestorsOf(h) :
               \A i \in 1..Len(handles[h].list) :
                   /\ Covered(handles[s].list, handles[h].list[i])
                   /\ handles[h].list[i].mode = "Mut" =>
                          \A j \in Covering(handles[s].list, handles[h].list[i].part) :
                              handles[s].list[j].mode = "Mut"
    /\ \A h \in Narrowable :
           \A e \in Entries(target) :
               \A R \in BorrowCheck(target, handles[h].list, <<e>>) :
                   /\ Covered(handles[h].list, e)
                   /\ \A k \in 1..Len(R) : Covered(handles[h].list, R[k])

(* A chain of two derivations: a handle narrowed to a Mut and a Const      *)
(* part, and a handle narrowed from it that holds a part nested in the Mut *)
(* one as Mut and the other as Const.                                      *)
C27_Witness ==
    \E h \in Ids :
        /\ Alive(h) /\ handles[h].role = "borrowed"
        /\ Cardinality(AncestorsOf(h)) = 2
        /\ MutPartsOf(SourceOf(h)) # {} /\ ConstPartsOf(SourceOf(h)) # {}
        /\ \E P \in MutPartsOf(handles[h].list) :
               /\ IsNested(P)
               /\ P \notin PartsOf(SourceOf(h))
               /\ OuterOf(P) \in MutPartsOf(SourceOf(h))
        /\ \E P \in ConstPartsOf(handles[h].list) : P \in ConstPartsOf(SourceOf(h))

(* The parts of the target with a record type: their fields have parts.    *)
RecordParts == {F \in AllPartsOf[target] : PartType(F) \in Targets}

(* The list holds a part nested, at any depth, in F.                       *)
HoldsSubPart(list, F) ==
    \E i \in 1..Len(list) : IsPrefix(F, list[i].part) /\ list[i].part # F

(* No call that asks for P, in either mode, is accepted by the list.       *)
Rejects(list, P) ==
    \A m \in {"Mut", "Const"} :
        /\ Pluck(target, list, Entry(m, P)) = {}
        /\ BorrowCheck(target, list, <<Entry(m, P)>>) = {}
        /\ PartCheck(target, list, Entry(m, P)) = {}

(* C28: a handle that holds parts nested in F but neither F nor a part F   *)
(* is nested in rejects every request for F, in either mode; so do both   *)
(* results of a split that plucked a part nested in F as Mut out of a held *)
(* Mut F, and so would every Remainder of plucking F|P as Mut, although it *)
(* holds every other part of F's record.                                   *)
C28_NeverMergedBack ==
    /\ \A h \in Ids : Alive(h) /\ ~IsReference(h) =>
           \A F \in RecordParts :
               (HoldsSubPart(handles[h].list, F) /\ Covering(handles[h].list, F) = {})
                   => Rejects(handles[h].list, F)
    /\ \A pr \in SplitPairs :
           \A P \in MutPartsOf(handles[pr[1]].list) :
               \A F \in RecordParts :
                   (IsPrefix(F, P) /\ F # P /\ Holds(SourceOf(pr[1]), "Mut", F))
                       => /\ Rejects(handles[pr[2]].list, F)
                          /\ Rejects(handles[pr[1]].list, F)
    /\ \A h \in Narrowable :
           \A F \in RecordPartsOf(handles[h].list, "Mut") :
               \A P \in Parts(PartType(F)) :
                   \A d \in PluckMut(target, handles[h].list, Nested(F, P)) :
                       Rejects(d.rem, F)

(* Both results of a split are usable: the narrowed handle holds F|P as    *)
(* Mut, the Remainder every other part of F's record as Mut, and accepts   *)
(* each of them but not F.                                                 *)
C28_Witness ==
    \E pr \in SplitPairs :
        /\ Usable(pr[1]) /\ Usable(pr[2])
        /\ handles[pr[2]].role = "remainder"
        /\ \E F \in RecordPartsOf(SourceOf(pr[1]), "Mut") :
               \E P \in Parts(PartType(F)) :
                   /\ handles[pr[1]].list = <<Entry("Mut", Nested(F, P))>>
                   /\ Parts(PartType(F)) \ {P} # {}
                   /\ \A Q \in Parts(PartType(F)) \ {P} :
                          /\ Holds(handles[pr[2]].list, "Mut", Nested(F, Q))
                          /\ ~Rejects(handles[pr[2]].list, Nested(F, Q))
                   /\ Rejects(handles[pr[2]].list, F)

(* The request that names P twice, in the modes m1 and m2.                 *)
Twice(m1, m2, P) == <<Entry(m1, P), Entry(m2, P)>>

(* What a list answers to the requests that name P twice: rejected when   *)
(* one of the two entries is Mut, in either order; accepted as Const twice *)
(* exactly when the list holds P or a part P is nested in; and the list    *)
(* itself holds no part twice with one of the entries Mut.                 *)
DuplicateAnswers(list, P) ==
    /\ BorrowCheck(target, list, Twice("Mut", "Mut", P)) = {}
    /\ BorrowCheck(target, list, Twice("Mut", "Const", P)) = {}
    /\ BorrowCheck(target, list, Twice("Const", "Mut", P)) = {}
    /\ BorrowCheck(target, list, Twice("Const", "Const", P)) # {}
           <=> Covering(list, P) # {}
    /\ Holds(list, "Mut", P) => /\ Count(list, Entry("Mut", P)) = 1
                                /\ ~Holds(list, "Const", P)

(* A step to a narrowed handle that lists P twice as Const and nothing     *)
(* else is a borrow by a handle that covers P and accepts that request.    *)
BorrowTwiceShared(P) ==
    (handles'[1].role = "borrowed" /\ handles'[1].list = Twice("Const", "Const", P))
        => /\ Covering(handles[1].list, P) # {}
           /\ ShadowBorrow(Twice("Const", "Const", P))

(* C29: whatever list a handle holds, a request that names one part twice  *)
(* is rejected when one of the two entries is Mut (Mut and Mut, Mut and    *)
(* Const, Const and Mut); naming it twice as Const is accepted when the    *)
(* part is held or covered, and the narrowed handle of that borrow lists   *)
(* the part twice as Const.                                                *)
C29_DuplicateRequests ==
    /\ [](\A h \in Ids : (Alive(h) /\ ~IsReference(h)) =>
             \A P \in AllPartsOf[target] : DuplicateAnswers(handles[h].list, P))
    /\ [][\A P \in AllPartsOf[target] : BorrowTwiceShared(P)]_vars

(* A handle narrowed to a part twice as Const, which in turn accepts the   *)
(* request for the part twice as Const and rejects the three others.       *)
C29_Witness ==
    /\ handles[1].role = "borrowed"
    /\ \E P \in AllPartsOf[target] :
           /\ handles[1].list = Twice("Const", "Const", P)
           /\ BorrowCheck(target, handles[1].list, Twice("Const", "Const", P)) # {}
           /\ BorrowCheck(target, handles[1].list, Twice("Const", "Mut", P)) = {}

====
